---- MODULE Spec2Model ----
(***************************************************************************)
(* State-machine model of the request manager of the p2p communication     *)
(* layer (src/src/behaviour/request_manager.rs) together with the          *)
(* connection bookkeeping it drives.                                       *)
(*                                                                         *)
(* The RequestManager struct is the record `mgr`; its fields carry the     *)
(* names of the struct's fields.  Every method of the manager is an        *)
(* operator from a manager record (and the call's arguments) to the        *)
(* manager record after the call, so that a method calling another one     *)
(* (on_peer_rule -> handle_request_approval -> add_dial_attempt) is the    *)
(* composition of the operators.  The host (the NetBehaviour facade, the   *)
(* transport and the firewall) is the environment: it assigns request ids  *)
(* and connection ids, and calls the manager's entry points.               *)
(***************************************************************************)
EXTENDS Integers, Sequences, FiniteSets, TLC

(***************************************************************************)
(* Bounds of the model.                                                    *)
(***************************************************************************)
\* Number of requests the host admits in one run.
MaxRequests == 2
\* Number of connections the transport establishes in one run.
MaxConnections == 2
\* Length of the action queue from which the host drains it before it calls
\* the manager again.
MaxQueue == 1
\* Number of outcome reports (on_res_for_*) of protocol handlers in one run.
MaxReports == 1
\* Length of the action queue from which the host drains it before it calls
\* the manager again, in the runs that record the queue's traffic.
MaxObservedQueue == 2

\* Remote peers.
Peers == {"p1", "p2"}
\* Values of the permission classifier of a request (permission_value()).
PermissionValues == {1}

RequestDirections == {"Inbound", "Outbound"}
RuleDirections == {"Inbound", "Outbound", "Both"}
ApprovalStatus == {"MissingRule", "MissingApproval", "Approved", "Rejected"}
\* Connection selection of the connection manager when a peer has several
\* connections: implementation-defined, fixed for the lifetime of a process.
SelectionPolicies == {"first", "last"}

\* RuleDirection::is_inbound / is_outbound.
is_inbound(direction) == direction \in {"Inbound", "Both"}
is_outbound(direction) == direction \in {"Outbound", "Both"}

(***************************************************************************)
(* Finite maps (HashMap): functions whose domain is the set of keys.       *)
(***************************************************************************)
EmptyMap == [k \in {} |-> k]
MapInsert(map, key, value) ==
    [k \in (DOMAIN map) \cup {key} |-> IF k = key THEN value ELSE map[k]]
MapRemove(map, key) == [k \in (DOMAIN map) \ {key} |-> map[k]]

\* The iteration orders of a HashSet: every sequence listing each element once.
Orders(set) ==
    {order \in [1..Cardinality(set) -> set] :
        \A i, j \in 1..Cardinality(set) : i # j => order[i] # order[j]}

(***************************************************************************)
(* BehaviourAction.  All variants share one record shape; the fields a     *)
(* variant does not have are 0 / "-".  `request` is the payload's          *)
(* permission value (the RequestMessage handed on with a Ready action).    *)
(***************************************************************************)
Action(type, peer, request_id, connection, reason, request) ==
    [type |-> type, peer |-> peer, request_id |-> request_id,
     connection |-> connection, reason |-> reason, request |-> request]
InboundReady(request_id, peer, request) ==
    Action("InboundReady", peer, request_id, 0, "-", request)
OutboundReady(request_id, peer, connection, request) ==
    Action("OutboundReady", peer, request_id, connection, "-", request)
RequireDialAttempt(peer) == Action("RequireDialAttempt", peer, 0, 0, "-", 0)
OutboundFailure(peer, request_id, reason) ==
    Action("OutboundFailure", peer, request_id, 0, reason, 0)
InboundFailure(peer, request_id, reason) ==
    Action("InboundFailure", peer, request_id, 0, reason, 0)
SetProtocolSupport(peer, connection, support) ==
    Action("SetProtocolSupport", peer, 0, connection, support, 0)

(***************************************************************************)
(* PeerConnectionManager (request_manager/connections.rs).                 *)
(*   connections : PeerId -> sequence of ConnectionId, in insertion order  *)
(*   pending     : ConnectionId -> the two sets of in-flight request ids   *)
(*   policy      : which of a peer's connections add_request picks         *)
(***************************************************************************)
NoPendingResponses == [outbound_requests |-> {}, inbound_requests |-> {}]

PeerConnectionManager_new(policy) ==
    [connections |-> [p \in Peers |-> <<>>], pending |-> EmptyMap, policy |-> policy]

is_connected(conns, peer) == conns.connections[peer] # <<>>

get_connections(conns, peer) == conns.connections[peer]

add_connection(conns, peer, connection) ==
    [conns EXCEPT !.connections[peer] = Append(@, connection),
                  !.pending = MapInsert(@, connection, NoPendingResponses)]

\* Returns [some, connection, conns]: the connection the request was attached
\* to, if the peer has one.
add_request(conns, peer, request_id, direction) ==
    LET list == conns.connections[peer] IN
    IF list = <<>>
    THEN [some |-> FALSE, connection |-> 0, conns |-> conns]
    ELSE LET connection == IF conns.policy = "first" THEN list[1] ELSE list[Len(list)]
             pending == conns.pending[connection]
             updated == IF direction = "Inbound"
                        THEN [pending EXCEPT !.inbound_requests = @ \cup {request_id}]
                        ELSE [pending EXCEPT !.outbound_requests = @ \cup {request_id}]
         IN [some |-> TRUE, connection |-> connection,
             conns |-> [conns EXCEPT !.pending[connection] = updated]]

remove_request(conns, connection, request_id, direction) ==
    IF connection \notin DOMAIN conns.pending
    THEN conns
    ELSE IF direction = "Inbound"
         THEN [conns EXCEPT !.pending[connection].inbound_requests = @ \ {request_id}]
         ELSE [conns EXCEPT !.pending[connection].outbound_requests = @ \ {request_id}]

\* Returns [some, pending, conns]: the in-flight sets of the removed connection.
remove_connection(conns, peer, connection) ==
    LET kept == SelectSeq(conns.connections[peer], LAMBDA c : c # connection) IN
    IF connection \in DOMAIN conns.pending
    THEN [some |-> TRUE, pending |-> conns.pending[connection],
          conns |-> [conns EXCEPT !.connections[peer] = kept,
                                  !.pending = MapRemove(@, connection)]]
    ELSE [some |-> FALSE, pending |-> NoPendingResponses,
          conns |-> [conns EXCEPT !.connections[peer] = kept]]

\* Returns [some, connections, conns]: every connection of the peer.
remove_all_connections(conns, peer) ==
    [some |-> conns.connections[peer] # <<>>,
     connections |-> conns.connections[peer],
     conns |-> [conns EXCEPT !.connections[peer] = <<>>]]

(***************************************************************************)
(* RequestManager.  A stored request is [peer, request]: the PeerId and    *)
(* the RequestMessage (its payload's permission value; the response sink   *)
(* travels with the record and is dropped when the record is discarded).   *)
(* `panicked` records that the expect() of on_peer_connected aborted the   *)
(* process.                                                                *)
(***************************************************************************)
RequestManager_new(policy) ==
    [inbound_request_store |-> EmptyMap,
     outbound_request_store |-> EmptyMap,
     connections |-> PeerConnectionManager_new(policy),
     awaiting_connection |-> EmptyMap,
     awaiting_peer_rule |-> EmptyMap,
     awaiting_approval |-> <<>>,
     actions |-> <<>>,
     panicked |-> FALSE]

push_back(m, action) == [m EXCEPT !.actions = Append(@, action)]

store_request(m, peer, request_id, request, direction) ==
    IF direction = "Inbound"
    THEN [m EXCEPT !.inbound_request_store =
                       MapInsert(@, request_id, [peer |-> peer, request |-> request])]
    ELSE [m EXCEPT !.outbound_request_store =
                       MapInsert(@, request_id, [peer |-> peer, request |-> request])]

\* Faulty variant of take_stored_request: hands the stored request out and
\* leaves it in its store.
take_stored_request_keeping(m, request_id, direction) ==
    LET store == IF direction = "Inbound" THEN m.inbound_request_store
                 ELSE m.outbound_request_store
    IN IF request_id \notin DOMAIN store
       THEN [some |-> FALSE, peer |-> "-", request |-> 0, m |-> m]
       ELSE [some |-> TRUE, peer |-> store[request_id].peer,
             request |-> store[request_id].request, m |-> m]

\* Returns [some, peer, request, m].
take_stored_request(m, request_id, direction) ==
    LET store == IF direction = "Inbound" THEN m.inbound_request_store
                 ELSE m.outbound_request_store
    IN IF request_id \notin DOMAIN store
       THEN [some |-> FALSE, peer |-> "-", request |-> 0, m |-> m]
       ELSE [some |-> TRUE, peer |-> store[request_id].peer,
             request |-> store[request_id].request,
             m |-> IF direction = "Inbound"
                   THEN [m EXCEPT !.inbound_request_store = MapRemove(@, request_id)]
                   ELSE [m EXCEPT !.outbound_request_store = MapRemove(@, request_id)]]

\* Faulty variant of add_dial_attempt: the id replaces the ids that already
\* await the connection.
add_dial_attempt_replacing(m, peer, request_id) ==
    push_back([m EXCEPT !.awaiting_connection = MapInsert(@, peer, <<request_id>>)],
              RequireDialAttempt(peer))

add_dial_attempt(m, peer, request_id) ==
    LET reqs == IF peer \in DOMAIN m.awaiting_connection
                THEN m.awaiting_connection[peer] ELSE <<>>
    IN push_back([m EXCEPT !.awaiting_connection =
                               MapInsert(@, peer, Append(reqs, request_id))],
                 RequireDialAttempt(peer))

\* Faulty variant of add_ready_request: the OutboundReady names no connection.
add_ready_request_unnamed(m, peer, request_id, connection, request, direction) ==
    IF direction = "Inbound"
    THEN push_back(m, InboundReady(request_id, peer, request))
    ELSE push_back(m, OutboundReady(request_id, peer, 0, request))

add_ready_request(m, peer, request_id, connection, request, direction) ==
    IF direction = "Inbound"
    THEN push_back(m, InboundReady(request_id, peer, request))
    ELSE push_back(m, OutboundReady(request_id, peer, connection, request))

\* Whether a stored request with that id exists (the Option of the two getters).
has_stored_request(m, request_id) ==
    request_id \in (DOMAIN m.inbound_request_store) \cup (DOMAIN m.outbound_request_store)

get_request_peer_ref(m, request_id) ==
    IF request_id \in DOMAIN m.inbound_request_store
    THEN m.inbound_request_store[request_id].peer
    ELSE m.outbound_request_store[request_id].peer

get_request_value_ref(m, request_id) ==
    IF request_id \in DOMAIN m.inbound_request_store
    THEN m.inbound_request_store[request_id].request
    ELSE m.outbound_request_store[request_id].request

NotPermitted(direction, peer, request_id) ==
    IF direction = "Outbound"
    THEN OutboundFailure(peer, request_id, "NotPermitted")
    ELSE InboundFailure(peer, request_id, "NotPermitted")

\* Faulty variant of handle_request_approval: an approved request that was
\* attached to a connection is handed out Ready and stays in its store.
handle_request_approval_storing_ready(m, request_id, direction, is_allowed) ==
    IF ~is_allowed
    THEN LET taken == take_stored_request(m, request_id, direction) IN
         IF ~taken.some
         THEN [some |-> FALSE, m |-> m]
         ELSE [some |-> TRUE,
               m |-> push_back(taken.m, NotPermitted(direction, taken.peer, request_id))]
    ELSE IF ~has_stored_request(m, request_id)
    THEN [some |-> FALSE, m |-> m]
    ELSE LET peer == get_request_peer_ref(m, request_id)
             added == add_request(m.connections, peer, request_id, direction)
             m1 == [m EXCEPT !.connections = added.conns]
             taken == take_stored_request(m1, request_id, direction)
         IN IF added.some
            THEN IF ~taken.some
                 THEN [some |-> FALSE, m |-> m1]
                 ELSE [some |-> TRUE,
                       m |-> add_ready_request(m1, taken.peer, request_id,
                                               added.connection, taken.request, direction)]
            ELSE IF direction = "Inbound"
                 THEN IF ~taken.some
                      THEN [some |-> FALSE, m |-> m1]
                      ELSE [some |-> TRUE,
                            m |-> push_back(taken.m,
                                      InboundFailure(peer, request_id, "ConnectionClosed"))]
                 ELSE [some |-> TRUE, m |-> add_dial_attempt(m1, peer, request_id)]

\* Returns [some, m]: `some` is the Option<()> of the method.
handle_request_approval(m, request_id, direction, is_allowed) ==
    IF ~is_allowed
    THEN LET taken == take_stored_request(m, request_id, direction) IN
         IF ~taken.some
         THEN [some |-> FALSE, m |-> m]
         ELSE [some |-> TRUE,
               m |-> push_back(taken.m, NotPermitted(direction, taken.peer, request_id))]
    ELSE IF ~has_stored_request(m, request_id)
    THEN [some |-> FALSE, m |-> m]
    ELSE LET peer == get_request_peer_ref(m, request_id)
             added == add_request(m.connections, peer, request_id, direction)
             m1 == [m EXCEPT !.connections = added.conns]
             taken == take_stored_request(m1, request_id, direction)
         IN IF added.some
            THEN IF ~taken.some
                 THEN [some |-> FALSE, m |-> m1]
                 ELSE [some |-> TRUE,
                       m |-> add_ready_request(taken.m, taken.peer, request_id,
                                               added.connection, taken.request, direction)]
            ELSE IF direction = "Inbound"
                 THEN IF ~taken.some
                      THEN [some |-> FALSE, m |-> m1]
                      ELSE [some |-> TRUE,
                            m |-> push_back(taken.m,
                                      InboundFailure(peer, request_id, "ConnectionClosed"))]
                 ELSE [some |-> TRUE, m |-> add_dial_attempt(m1, peer, request_id)]

\* Faulty variant of on_new_request: an approved inbound request without a
\* connection is stored and dialled for, as an outbound one is.
on_new_request_dialling_inbound(m, peer, request_id, request, approval_status, direction) ==
    CASE approval_status = "MissingRule" ->
            LET m1 == store_request(m, peer, request_id, request, direction)
                await_rule == IF peer \in DOMAIN m1.awaiting_peer_rule
                              THEN m1.awaiting_peer_rule[peer] ELSE EmptyMap
                list == IF direction \in DOMAIN await_rule
                        THEN await_rule[direction] ELSE <<>>
            IN [m1 EXCEPT !.awaiting_peer_rule =
                   MapInsert(@, peer, MapInsert(await_rule, direction,
                                                Append(list, request_id)))]
      [] approval_status = "MissingApproval" ->
            LET m1 == store_request(m, peer, request_id, request, direction)
            IN [m1 EXCEPT !.awaiting_approval = Append(@, <<request_id, direction>>)]
      [] approval_status = "Approved" ->
            LET added == add_request(m.connections, peer, request_id, direction)
                m1 == [m EXCEPT !.connections = added.conns]
            IN IF added.some
               THEN add_ready_request(m1, peer, request_id, added.connection,
                                      request, direction)
               ELSE add_dial_attempt(
                        store_request(m1, peer, request_id, request, direction),
                        peer, request_id)
      [] approval_status = "Rejected" ->
            push_back(m, NotPermitted(direction, peer, request_id))

on_new_request(m, peer, request_id, request, approval_status, direction) ==
    CASE approval_status = "MissingRule" ->
            LET m1 == store_request(m, peer, request_id, request, direction)
                await_rule == IF peer \in DOMAIN m1.awaiting_peer_rule
                              THEN m1.awaiting_peer_rule[peer] ELSE EmptyMap
                list == IF direction \in DOMAIN await_rule
                        THEN await_rule[direction] ELSE <<>>
            IN [m1 EXCEPT !.awaiting_peer_rule =
                   MapInsert(@, peer, MapInsert(await_rule, direction,
                                                Append(list, request_id)))]
      [] approval_status = "MissingApproval" ->
            LET m1 == store_request(m, peer, request_id, request, direction)
            IN [m1 EXCEPT !.awaiting_approval = Append(@, <<request_id, direction>>)]
      [] approval_status = "Approved" ->
            LET added == add_request(m.connections, peer, request_id, direction)
                m1 == [m EXCEPT !.connections = added.conns]
            IN IF added.some
               THEN add_ready_request(m1, peer, request_id, added.connection,
                                      request, direction)
               ELSE IF direction = "Outbound"
                    THEN add_dial_attempt(
                             store_request(m1, peer, request_id, request, "Outbound"),
                             peer, request_id)
                    ELSE push_back(m1, InboundFailure(peer, request_id, "ConnectionClosed"))
      [] approval_status = "Rejected" ->
            push_back(m, NotPermitted(direction, peer, request_id))

\* Faulty variant of assign_awaiting: hands the requests out Ready without
\* attaching them to the connection.
RECURSIVE assign_awaiting_unattached(_, _)
assign_awaiting_unattached(m, requests) ==
    IF requests = <<>> \/ m.panicked
    THEN m
    ELSE LET request_id == Head(requests)
             taken == take_stored_request(m, request_id, "Outbound")
             added == add_request(taken.m.connections, taken.peer, request_id, "Outbound")
         IN IF ~taken.some
            THEN assign_awaiting_unattached(m, Tail(requests))
            ELSE IF ~added.some
                 THEN [taken.m EXCEPT !.panicked = TRUE]
                 ELSE assign_awaiting_unattached(
                          push_back(taken.m,
                                    OutboundReady(request_id, taken.peer,
                                                  added.connection, taken.request)),
                          Tail(requests))

\* The closure of on_peer_connected applied to the ids that awaited the connection.
RECURSIVE assign_awaiting(_, _)
assign_awaiting(m, requests) ==
    IF requests = <<>> \/ m.panicked
    THEN m
    ELSE LET request_id == Head(requests)
             taken == take_stored_request(m, request_id, "Outbound")
             added == add_request(taken.m.connections, taken.peer, request_id, "Outbound")
         IN IF ~taken.some
            THEN assign_awaiting(m, Tail(requests))
            ELSE IF ~added.some
                 THEN [taken.m EXCEPT !.panicked = TRUE]
                 ELSE assign_awaiting(
                          push_back([taken.m EXCEPT !.connections = added.conns],
                                    OutboundReady(request_id, taken.peer,
                                                  added.connection, taken.request)),
                          Tail(requests))

\* Faulty variant of on_peer_connected: without the is_connected check.
on_peer_connected_unchecked(m, peer) ==
    IF peer \in DOMAIN m.awaiting_connection
    THEN assign_awaiting([m EXCEPT !.awaiting_connection = MapRemove(@, peer)],
                         m.awaiting_connection[peer])
    ELSE m

on_peer_connected(m, peer) ==
    IF ~is_connected(m.connections, peer)
    THEN m
    ELSE IF peer \in DOMAIN m.awaiting_connection
         THEN assign_awaiting([m EXCEPT !.awaiting_connection = MapRemove(@, peer)],
                              m.awaiting_connection[peer])
         ELSE m

on_connection_established(m, peer, connection) ==
    [m EXCEPT !.connections = add_connection(@, peer, connection)]

\* The failures for the in-flight requests of a closed connection, in the
\* iteration orders `out` and `inb` of its two sets.
closed_failures(peer, out, inb) ==
    [i \in 1..Len(out) |-> OutboundFailure(peer, out[i], "ConnectionClosed")]
    \o [i \in 1..Len(inb) |-> InboundFailure(peer, inb[i], "ConnectionClosed")]

\* Faulty variant of on_connection_closed: no failures for the inbound
\* requests of the closed connection.
on_connection_closed_outbound_only(m, peer, connection) ==
    LET removed == remove_connection(m.connections, peer, connection)
        m1 == [m EXCEPT !.connections = removed.conns]
    IN IF ~removed.some
       THEN {m1}
       ELSE {[m1 EXCEPT !.actions = @ \o closed_failures(peer, out, <<>>)] :
                out \in Orders(removed.pending.outbound_requests)}

\* The set of managers the call can leave: one per iteration order of the
\* connection's in-flight sets.
on_connection_closed(m, peer, connection) ==
    LET removed == remove_connection(m.connections, peer, connection)
        m1 == [m EXCEPT !.connections = removed.conns]
    IN IF ~removed.some
       THEN {m1}
       ELSE {[m1 EXCEPT !.actions = @ \o closed_failures(peer, out, inb)] :
                out \in Orders(removed.pending.outbound_requests),
                inb \in Orders(removed.pending.inbound_requests)}

RECURSIVE close_connections(_, _, _)
close_connections(managers, peer, conns) ==
    IF conns = <<>>
    THEN managers
    ELSE close_connections(
             UNION {on_connection_closed(m, peer, Head(conns)) : m \in managers},
             peer, Tail(conns))

\* Faulty variant of on_peer_disconnected: forgets the peer's connections
\* without closing them.
on_peer_disconnected_forgetting(m, peer) ==
    {[m EXCEPT !.connections = remove_all_connections(@, peer).conns]}

\* The set of managers the call can leave.
on_peer_disconnected(m, peer) ==
    LET removed == remove_all_connections(m.connections, peer) IN
    IF ~removed.some
    THEN {m}
    ELSE close_connections({[m EXCEPT !.connections = removed.conns]}, peer,
                           removed.connections)

\* Faulty variant of fail_awaiting: the failed requests stay in the store.
RECURSIVE fail_awaiting_keeping_stored(_, _, _)
fail_awaiting_keeping_stored(m, peer, requests) ==
    IF requests = <<>>
    THEN m
    ELSE fail_awaiting_keeping_stored(
             push_back(m, OutboundFailure(peer, Head(requests), "DialFailure")),
             peer, Tail(requests))

\* The closure of on_dial_failure applied to the ids that awaited the connection.
RECURSIVE fail_awaiting(_, _, _)
fail_awaiting(m, peer, requests) ==
    IF requests = <<>>
    THEN m
    ELSE fail_awaiting(
             push_back(take_stored_request(m, Head(requests), "Outbound").m,
                       OutboundFailure(peer, Head(requests), "DialFailure")),
             peer, Tail(requests))

\* Faulty variant of on_dial_failure: leaves the peer's entry in
\* awaiting_connection.
on_dial_failure_keeping_entry(m, peer) ==
    IF peer \in DOMAIN m.awaiting_connection
    THEN fail_awaiting(m, peer, m.awaiting_connection[peer])
    ELSE m

on_dial_failure(m, peer) ==
    IF peer \in DOMAIN m.awaiting_connection
    THEN fail_awaiting([m EXCEPT !.awaiting_connection = MapRemove(@, peer)], peer,
                       m.awaiting_connection[peer])
    ELSE m

(***************************************************************************)
(* Firewall rules.  A Rule is [kind, permission]: "Ask", "Permission" with *)
(* the set of permission values it permits, or "None" for an absent rule.  *)
(* FirewallRules holds one rule per direction.                             *)
(***************************************************************************)
Rules ==
    {[kind |-> "None", permission |-> {}], [kind |-> "Ask", permission |-> {}]}
    \cup {[kind |-> "Permission", permission |-> p] : p \in SUBSET PermissionValues}
FirewallRules == [inbound : Rules, outbound : Rules]

permits(permission, value) == value \in permission

\* Faulty variant of apply_rule: a Permission rule lets every request pass,
\* whatever its permission value.
RECURSIVE apply_rule_permitting(_, _, _, _)
apply_rule_permitting(m, rules, requests, require_ask) ==
    IF requests = <<>>
    THEN [require_ask |-> require_ask, m |-> m]
    ELSE LET request_id == Head(requests)[1]
             dir == Head(requests)[2]
             rule == IF dir = "Inbound" THEN rules.inbound ELSE rules.outbound
             rest == Tail(requests)
         IN CASE rule.kind = "Ask" ->
                    IF ~has_stored_request(m, request_id)
                    THEN apply_rule_permitting(m, rules, rest, require_ask)
                    ELSE apply_rule_permitting(
                             [m EXCEPT !.awaiting_approval = Append(@, <<request_id, dir>>)],
                             rules, rest,
                             Append(require_ask,
                                    <<request_id, get_request_value_ref(m, request_id), dir>>))
              [] rule.kind = "Permission" ->
                    IF ~has_stored_request(m, request_id)
                    THEN apply_rule_permitting(m, rules, rest, require_ask)
                    ELSE apply_rule_permitting(
                             handle_request_approval(m, request_id, dir, TRUE).m,
                             rules, rest, require_ask)
              [] rule.kind = "None" ->
                    apply_rule_permitting(
                        handle_request_approval(m, request_id, dir, FALSE).m,
                        rules, rest, require_ask)

\* The filter_map closure of on_peer_rule applied to the affected requests;
\* returns [require_ask, m].
RECURSIVE apply_rule(_, _, _, _)
apply_rule(m, rules, requests, require_ask) ==
    IF requests = <<>>
    THEN [require_ask |-> require_ask, m |-> m]
    ELSE LET request_id == Head(requests)[1]
             dir == Head(requests)[2]
             rule == IF dir = "Inbound" THEN rules.inbound ELSE rules.outbound
             rest == Tail(requests)
         IN CASE rule.kind = "Ask" ->
                    IF ~has_stored_request(m, request_id)
                    THEN apply_rule(m, rules, rest, require_ask)
                    ELSE apply_rule(
                             [m EXCEPT !.awaiting_approval = Append(@, <<request_id, dir>>)],
                             rules, rest,
                             Append(require_ask,
                                    <<request_id, get_request_value_ref(m, request_id), dir>>))
              [] rule.kind = "Permission" ->
                    IF ~has_stored_request(m, request_id)
                    THEN apply_rule(m, rules, rest, require_ask)
                    ELSE apply_rule(
                             handle_request_approval(m, request_id, dir,
                                 permits(rule.permission,
                                         get_request_value_ref(m, request_id))).m,
                             rules, rest, require_ask)
              [] rule.kind = "None" ->
                    apply_rule(handle_request_approval(m, request_id, dir, FALSE).m,
                               rules, rest, require_ask)

\* Faulty variant of affected: tags every id as inbound.
affected_as_inbound(await_rule, dir) ==
    IF dir \in DOMAIN await_rule
    THEN [i \in 1..Len(await_rule[dir]) |-> <<await_rule[dir][i], "Inbound">>]
    ELSE <<>>

\* The ids of `await_rule` awaiting a rule in direction dir, tagged with dir.
affected(await_rule, dir) ==
    IF dir \in DOMAIN await_rule
    THEN [i \in 1..Len(await_rule[dir]) |-> <<await_rule[dir][i], dir>>]
    ELSE <<>>

\* Faulty variant of unaffected: takes no direction out.
unaffected_all(await_rule, direction) == await_rule

\* What is left of a peer's entry once the directions covered by `direction`
\* have been taken out.
unaffected(await_rule, direction) ==
    LET in_removed == IF is_inbound(direction)
                      THEN MapRemove(await_rule, "Inbound") ELSE await_rule
    IN IF is_outbound(direction) THEN MapRemove(in_removed, "Outbound") ELSE in_removed

\* Faulty variant of on_peer_rule: handles the affected requests last to first.
on_peer_rule_reversed(m, peer, rules, direction) ==
    IF peer \notin DOMAIN m.awaiting_peer_rule
    THEN [some |-> FALSE, require_ask |-> <<>>, m |-> m]
    ELSE LET await_rule == m.awaiting_peer_rule[peer]
             requests ==
                 (IF is_inbound(direction) THEN affected(await_rule, "Inbound") ELSE <<>>)
                 \o (IF is_outbound(direction) THEN affected(await_rule, "Outbound") ELSE <<>>)
             rest == unaffected(await_rule, direction)
             applied == apply_rule([m EXCEPT !.awaiting_peer_rule = MapRemove(@, peer)],
                                   rules,
                                   [i \in 1..Len(requests) |->
                                       requests[Len(requests) + 1 - i]],
                                   <<>>)
         IN [some |-> TRUE, require_ask |-> applied.require_ask,
             m |-> IF rest # EmptyMap
                   THEN [applied.m EXCEPT !.awaiting_peer_rule = MapInsert(@, peer, rest)]
                   ELSE applied.m]

\* Returns [some, require_ask, m]: the Option<Vec<(RequestId, P, RequestDirection)>>.
on_peer_rule(m, peer, rules, direction) ==
    IF peer \notin DOMAIN m.awaiting_peer_rule
    THEN [some |-> FALSE, require_ask |-> <<>>, m |-> m]
    ELSE LET await_rule == m.awaiting_peer_rule[peer]
             requests ==
                 (IF is_inbound(direction) THEN affected(await_rule, "Inbound") ELSE <<>>)
                 \o (IF is_outbound(direction) THEN affected(await_rule, "Outbound") ELSE <<>>)
             rest == unaffected(await_rule, direction)
             applied == apply_rule([m EXCEPT !.awaiting_peer_rule = MapRemove(@, peer)],
                                   rules, requests, <<>>)
         IN [some |-> TRUE, require_ask |-> applied.require_ask,
             m |-> IF rest # EmptyMap
                   THEN [applied.m EXCEPT !.awaiting_peer_rule = MapInsert(@, peer, rest)]
                   ELSE applied.m]

\* Faulty variant of reject_awaiting: the rejected requests stay in the store.
RECURSIVE reject_awaiting_keeping_stored(_, _, _, _)
reject_awaiting_keeping_stored(m, peer, requests, dir) ==
    IF requests = <<>>
    THEN m
    ELSE reject_awaiting_keeping_stored(
             push_back(m, NotPermitted(dir, peer, Head(requests))),
             peer, Tail(requests), dir)

\* The loops of on_no_peer_rule.
RECURSIVE reject_awaiting(_, _, _, _)
reject_awaiting(m, peer, requests, dir) ==
    IF requests = <<>>
    THEN m
    ELSE reject_awaiting(
             push_back(take_stored_request(m, Head(requests), dir).m,
                       NotPermitted(dir, peer, Head(requests))),
             peer, Tail(requests), dir)

\* Faulty variant of on_no_peer_rule: drops what is left of the peer's entry.
on_no_peer_rule_dropping_rest(m, peer, direction) ==
    IF peer \notin DOMAIN m.awaiting_peer_rule
    THEN m
    ELSE LET await_rule == m.awaiting_peer_rule[peer]
             m0 == [m EXCEPT !.awaiting_peer_rule = MapRemove(@, peer)]
             m1 == IF is_inbound(direction) /\ "Inbound" \in DOMAIN await_rule
                   THEN reject_awaiting(m0, peer, await_rule["Inbound"], "Inbound")
                   ELSE m0
         IN IF is_outbound(direction) /\ "Outbound" \in DOMAIN await_rule
            THEN reject_awaiting(m1, peer, await_rule["Outbound"], "Outbound")
            ELSE m1

on_no_peer_rule(m, peer, direction) ==
    IF peer \notin DOMAIN m.awaiting_peer_rule
    THEN m
    ELSE LET await_rule == m.awaiting_peer_rule[peer]
             m0 == [m EXCEPT !.awaiting_peer_rule = MapRemove(@, peer)]
             m1 == IF is_inbound(direction) /\ "Inbound" \in DOMAIN await_rule
                   THEN reject_awaiting(m0, peer, await_rule["Inbound"], "Inbound")
                   ELSE m0
             m2 == IF is_outbound(direction) /\ "Outbound" \in DOMAIN await_rule
                   THEN reject_awaiting(m1, peer, await_rule["Outbound"], "Outbound")
                   ELSE m1
             rest == unaffected(await_rule, direction)
         IN IF rest # EmptyMap
            THEN [m2 EXCEPT !.awaiting_peer_rule = MapInsert(@, peer, rest)]
            ELSE m2

\* slice::binary_search_by on awaiting_approval, comparing the ids with
\* request_id, over the 0-based range [left, right): the 1-based index of the
\* entry it finds, or 0 for Err.
RECURSIVE binary_search_by(_, _, _, _)
binary_search_by(list, request_id, left, right) ==
    IF left >= right
    THEN 0
    ELSE LET mid == left + ((right - left) \div 2)
             id == list[mid + 1][1]
         IN IF id < request_id THEN binary_search_by(list, request_id, mid + 1, right)
            ELSE IF id > request_id THEN binary_search_by(list, request_id, left, mid)
            ELSE mid + 1

RemoveAt(list, index) ==
    SubSeq(list, 1, index - 1) \o SubSeq(list, index + 1, Len(list))

\* Returns [some, m].
on_request_approval(m, request_id, is_allowed) ==
    LET index == binary_search_by(m.awaiting_approval, request_id, 0,
                                  Len(m.awaiting_approval))
    IN IF index = 0
       THEN [some |-> FALSE, m |-> m]
       ELSE handle_request_approval(
                [m EXCEPT !.awaiting_approval = RemoveAt(@, index)],
                m.awaiting_approval[index][1], m.awaiting_approval[index][2], is_allowed)

\* Faulty variant of on_res_for_inbound: the report also drops the stored
\* request of the id.
on_res_for_inbound_dropping_stored(m, peer, connection, request_id, result) ==
    LET m1 == [take_stored_request(m, request_id, "Inbound").m
                  EXCEPT !.connections = remove_request(@, connection, request_id, "Inbound")]
    IN IF result # "Ok" THEN push_back(m1, InboundFailure(peer, request_id, result)) ELSE m1

\* result is "Ok" or the failure reason of Err(reason).
on_res_for_inbound(m, peer, connection, request_id, result) ==
    LET m1 == [m EXCEPT !.connections = remove_request(@, connection, request_id, "Inbound")]
    IN IF result # "Ok" THEN push_back(m1, InboundFailure(peer, request_id, result)) ELSE m1

\* Faulty variant of on_res_for_outbound: the request stays in flight on the
\* connection.
on_res_for_outbound_keeping_in_flight(m, peer, connection, request_id, result) ==
    IF result # "Ok" THEN push_back(m, OutboundFailure(peer, request_id, result)) ELSE m

on_res_for_outbound(m, peer, connection, request_id, result) ==
    LET m1 == [m EXCEPT !.connections = remove_request(@, connection, request_id, "Outbound")]
    IN IF result # "Ok" THEN push_back(m1, OutboundFailure(peer, request_id, result)) ELSE m1

\* Faulty variant of pending_rule_requests: looks at the inbound direction
\* first, so that Both is never reported.
pending_rule_requests_inbound_first(m, peer) ==
    IF peer \notin DOMAIN m.awaiting_peer_rule
    THEN "None"
    ELSE IF "Inbound" \in DOMAIN m.awaiting_peer_rule[peer] THEN "Inbound"
         ELSE IF "Outbound" \in DOMAIN m.awaiting_peer_rule[peer] THEN "Outbound"
         ELSE "None"

\* "None", or the RuleDirection of Some(_).
pending_rule_requests(m, peer) ==
    IF peer \notin DOMAIN m.awaiting_peer_rule
    THEN "None"
    ELSE LET is_inbound_pending == "Inbound" \in DOMAIN m.awaiting_peer_rule[peer]
             is_outbound_pending == "Outbound" \in DOMAIN m.awaiting_peer_rule[peer]
         IN IF is_inbound_pending /\ is_outbound_pending THEN "Both"
            ELSE IF is_inbound_pending THEN "Inbound"
            ELSE IF is_outbound_pending THEN "Outbound"
            ELSE "None"

\* Faulty variant of add_pending_rule_requests: inserts the empty list also
\* for a direction that is already pending.
add_pending_rule_requests_overwriting(m, peer, direction) ==
    LET pending == IF peer \in DOMAIN m.awaiting_peer_rule
                   THEN m.awaiting_peer_rule[peer] ELSE EmptyMap
        with_in == IF is_inbound(direction)
                   THEN MapInsert(pending, "Inbound", <<>>) ELSE pending
        with_out == IF is_outbound(direction)
                    THEN MapInsert(with_in, "Outbound", <<>>) ELSE with_in
    IN [m EXCEPT !.awaiting_peer_rule = MapInsert(@, peer, with_out)]

add_pending_rule_requests(m, peer, direction) ==
    LET pending == IF peer \in DOMAIN m.awaiting_peer_rule
                   THEN m.awaiting_peer_rule[peer] ELSE EmptyMap
        with_in == IF is_inbound(direction) /\ "Inbound" \notin DOMAIN pending
                   THEN MapInsert(pending, "Inbound", <<>>) ELSE pending
        with_out == IF is_outbound(direction) /\ "Outbound" \notin DOMAIN with_in
                    THEN MapInsert(with_in, "Outbound", <<>>) ELSE with_in
    IN [m EXCEPT !.awaiting_peer_rule = MapInsert(@, peer, with_out)]

\* ProtocolSupport of a connection.
ProtocolSupports == {"Inbound", "Outbound", "Both", "None"}

\* The actions of set_protocol_support for the connections conns.
support_actions(peer, conns, protocol_support) ==
    [i \in 1..Len(conns) |-> SetProtocolSupport(peer, conns[i], protocol_support)]

\* connection is the Option<ConnectionId>: 0 for None.
set_protocol_support(m, peer, connection, protocol_support) ==
    LET connections == IF connection # 0 THEN <<connection>>
                       ELSE get_connections(m.connections, peer)
    IN [m EXCEPT !.actions = @ \o support_actions(peer, connections, protocol_support)]

\* Faulty variant of take_next_action: pops the back of the queue.
take_next_action_back(m) ==
    IF m.actions = <<>>
    THEN [next |-> <<>>, m |-> m]
    ELSE [next |-> <<m.actions[Len(m.actions)]>>,
          m |-> [m EXCEPT !.actions = SubSeq(@, 1, Len(@) - 1)]]

\* Returns [next, m]: `next` is <<>> for None and <<action>> for Some(action).
take_next_action(m) ==
    IF m.actions = <<>>
    THEN [next |-> <<>>, m |-> m]
    ELSE [next |-> <<Head(m.actions)>>, m |-> [m EXCEPT !.actions = Tail(@)]]

(***************************************************************************)
(* The substream upgrades (src/src/behaviour/handler/protocol.rs).         *)
(*                                                                         *)
(* Each upgrade is one task owning one substream.  A task is a record; its *)
(* field pc names the await it is suspended at, and each step below is the *)
(* code from one await to the next, given the outcome of the awaited       *)
(* operation.  io lists the substream operations that were completed.      *)
(***************************************************************************)
\* The payloads of requests and responses; 3 is a value whose serialization
\* fails.
Payloads == {1, 2, 3}

\* The frames a remote may send: the encodings of 1 and 2 and a brace.
Frames == {<<49>>, <<50>>, <<123>>}

\* serde_json::to_vec: the decimal digit of the number; Err for 3.
to_vec(data) ==
    IF data = 3
    THEN [ok |-> FALSE, bytes |-> <<>>]
    ELSE [ok |-> TRUE, bytes |-> <<48 + data>>]

\* serde_json::from_slice: the number a single decimal digit stands for.
from_slice(bytes) ==
    IF Len(bytes) = 1 /\ bytes[1] \in 49..57
    THEN [ok |-> TRUE, value |-> bytes[1] - 48]
    ELSE [ok |-> FALSE, value |-> 0]

\* What read_one may return: a frame, an io error or another ReadOneError.
ReadOneResults ==
    {[ok |-> TRUE, bytes |-> frame, error |-> "-"] : frame \in Frames}
    \cup {[ok |-> FALSE, bytes |-> <<>>, error |-> e] : e \in {"Io", "TooLarge"}}

\* Returns [ok, value, error]: the Result<T, io::Error> for a result of read_one.
read_and_parse(res) ==
    IF res.ok
    THEN LET parsed == from_slice(res.bytes) IN
         IF parsed.ok
         THEN [ok |-> TRUE, value |-> parsed.value, error |-> "-"]
         ELSE [ok |-> FALSE, value |-> 0, error |-> "InvalidData"]
    ELSE IF res.error = "Io"
         THEN [ok |-> FALSE, value |-> 0, error |-> "Io"]
         ELSE [ok |-> FALSE, value |-> 0, error |-> "Other"]

\* The task returns Err(error).
returns_err(h, error) == [h EXCEPT !.pc = "done", !.output = "Err", !.error = error]

\* The ResponseProtocol task before it is spawned (pc "idle") and at its
\* start (pc "read"); receiver is the manager's end of request_tx.
ResponseProtocol(pc, receiver) ==
    [pc |-> pc, request |-> 0, response |-> 0, output |-> "-", error |-> "-",
     io |-> <<>>, receiver |-> receiver, sink |-> "none", sink_value |-> 0]

\* upgrade_inbound from its start to rx.await, read_one having returned res:
\* the request is parsed and forwarded with a fresh response sink; the sink is
\* dropped with the query if the receiver of request_tx is gone.
upgrade_inbound_read(h, res) ==
    LET request == read_and_parse(res) IN
    IF ~request.ok
    THEN returns_err(h, request.error)
    ELSE [h EXCEPT !.request = request.value,
                   !.io = Append(@, <<"read", res.bytes>>),
                   !.sink = IF h.receiver = "alive" THEN "queued" ELSE "dropped",
                   !.pc = "await"]

\* rx.await has resolved: with the response, or with Err if the sink is dropped.
upgrade_inbound_await(h) ==
    IF h.sink = "signaled"
    THEN [h EXCEPT !.response = h.sink_value, !.pc = "write"]
    ELSE [h EXCEPT !.pc = "close"]

\* parse_and_write up to io.close, write_one having succeeded or not.
upgrade_inbound_write(h, ok) ==
    LET buf == to_vec(h.response) IN
    IF ~buf.ok
    THEN returns_err(h, "InvalidData")
    ELSE IF ~ok
         THEN returns_err(h, "Io")
         ELSE [h EXCEPT !.io = Append(@, <<"write", buf.bytes>>), !.pc = "write_close"]

\* Faulty variant of upgrade_inbound_close: true whenever the substream was
\* closed.
upgrade_inbound_close_true(h, ok) ==
    IF ~ok
    THEN returns_err(h, "Io")
    ELSE [h EXCEPT !.io = Append(@, <<"close">>), !.pc = "done", !.output = "true"]

\* io.close has succeeded or not: the close of parse_and_write gives true, the
\* close after a dropped sink gives false.
upgrade_inbound_close(h, ok) ==
    IF ~ok
    THEN returns_err(h, "Io")
    ELSE [h EXCEPT !.io = Append(@, <<"close">>),
                   !.pc = "done",
                   !.output = IF h.pc = "write_close" THEN "true" ELSE "false"]

\* The RequestProtocol task before it is spawned (pc "idle") and at its start
\* (pc "write") with the request data; caller is the receiving end of
\* request.response_tx.
RequestProtocol(pc, data) ==
    [pc |-> pc, request |-> data, response |-> 0, output |-> "-", error |-> "-",
     io |-> <<>>, caller |-> "waiting", delivered |-> 0]

\* The task returns Err(error); response_tx is dropped with the task.
failed_outbound(h, error) ==
    [returns_err(h, error) EXCEPT !.caller = IF h.caller = "waiting" THEN "cancelled" ELSE @]

\* parse_and_write up to io.close, write_one having succeeded or not.
upgrade_outbound_write(h, ok) ==
    LET buf == to_vec(h.request) IN
    IF ~buf.ok
    THEN failed_outbound(h, "InvalidData")
    ELSE IF ~ok
         THEN failed_outbound(h, "Io")
         ELSE [h EXCEPT !.io = Append(@, <<"write", buf.bytes>>), !.pc = "write_close"]

\* The io.close of parse_and_write has succeeded or not.
upgrade_outbound_close(h, ok) ==
    IF ~ok
    THEN failed_outbound(h, "Io")
    ELSE [h EXCEPT !.io = Append(@, <<"close">>), !.pc = "read"]

\* Faulty variant of upgrade_outbound_read: reports true without looking at
\* the result of the send.
upgrade_outbound_read_unchecked(h, res) ==
    LET response == read_and_parse(res) IN
    IF ~response.ok
    THEN failed_outbound(h, response.error)
    ELSE [h EXCEPT !.io = Append(@, <<"read", res.bytes>>),
                   !.response = response.value,
                   !.caller = IF h.caller = "waiting" THEN "received" ELSE @,
                   !.delivered = IF h.caller = "waiting" THEN response.value ELSE @,
                   !.pc = "done",
                   !.output = "true"]

\* read_one has returned res: the response is parsed and sent on response_tx;
\* the send fails if the caller has dropped the receiving end.
upgrade_outbound_read(h, res) ==
    LET response == read_and_parse(res) IN
    IF ~response.ok
    THEN failed_outbound(h, response.error)
    ELSE [h EXCEPT !.io = Append(@, <<"read", res.bytes>>),
                   !.response = response.value,
                   !.caller = IF h.caller = "waiting" THEN "received" ELSE @,
                   !.delivered = IF h.caller = "waiting" THEN response.value ELSE @,
                   !.pc = "done",
                   !.output = IF h.caller = "waiting" THEN "true" ELSE "false"]

(***************************************************************************)
(* The state.                                                              *)
(*   mgr                the RequestManager                                 *)
(*   next_connection_id the ConnectionId of the next connection            *)
(*   requests           per admitted request id (the next RequestId is     *)
(*                      Len(requests) + 1), what the host knows of it:     *)
(*                        peer, direction  as admitted                     *)
(*                        reported   a protocol handler has reported its   *)
(*                                   outcome through on_res_for_*          *)
(*                        completed  that report found it in-flight        *)
(*                        log        the actions carrying its id that were *)
(*                                   pushed to mgr.actions, in order, each *)
(*                                   as [type, reason, report]; report     *)
(*                                   tells that on_res_for_* pushed it     *)
(*   rule_queries       <<peer, direction>> of the rule queries the host   *)
(*                      has not answered                                   *)
(*   approval_queries   ids whose approval query the host has not answered *)
(*   dial_queries       peers with a RequireDialAttempt not yet answered   *)
(*   enqueued           the host's account of the queue: the actions       *)
(*                      pushed to mgr.actions, in order, less one (the     *)
(*                      oldest) for every call of take_next_action         *)
(*   taken              the last call of take_next_action, as [len, next,  *)
(*                      head]: the length of the queue at the call, the    *)
(*                      Option it returned (<<>> for None, <<action>> for  *)
(*                      Some(action)) and the oldest action of the host's  *)
(*                      account at the call (<<>> if it held none)         *)
(*   inbound_upgrade    the task of ResponseProtocol::upgrade_inbound on   *)
(*                      one substream, with the channels it uses           *)
(*   outbound_upgrade   the task of RequestProtocol::upgrade_outbound on   *)
(*                      one substream, with the caller's response channel  *)
(***************************************************************************)
VARIABLES mgr, next_connection_id, requests, rule_queries, approval_queries,
          dial_queries, enqueued, taken, inbound_upgrade, outbound_upgrade

vars == <<mgr, next_connection_id, requests, rule_queries, approval_queries,
          dial_queries, enqueued, taken, inbound_upgrade, outbound_upgrade>>

\* The protocol handler tasks, which the manager never touches.
upgrades == <<inbound_upgrade, outbound_upgrade>>

\* The record of the queue's traffic, kept by the runs that observe the queue.
history == <<enqueued, taken>>

next_request_id == Len(requests) + 1
RequestIds == 1..Len(requests)
ConnectionIds == 1..(next_connection_id - 1)
\* Outcomes a protocol handler reports through on_res_for_*: Ok or Err(reason).
ReportedResults == {"Ok", "Timeout"}

\* The actions a call pushed, given the manager m1 before and m2 after it.
Enqueued(m1, m2) == SubSeq(m2.actions, Len(m1.actions) + 1, Len(m2.actions))

\* The entries of `pushed` that carry request_id, as log entries of the entry
\* point `op` that pushed them.
LogEntries(op, pushed, request_id) ==
    LET mine == SelectSeq(pushed, LAMBDA a : a.request_id = request_id)
    IN [i \in 1..Len(mine) |->
           [type |-> mine[i].type, reason |-> mine[i].reason,
            report |-> op \in {"on_res_for_inbound", "on_res_for_outbound"}]]

DialsRequired(pushed) ==
    {pushed[i].peer : i \in {j \in 1..Len(pushed) : pushed[j].type = "RequireDialAttempt"}}

\* A call on behalf of the host that leaves the manager m2, given the
\* approval queries it issued (asked) and the dial, approval and rule queries
\* it answered.  The host drains the queue below MaxQueue before it calls.
Call(m2, asked, dialled, approved, ruled) ==
    /\ ~mgr.panicked
    /\ Len(mgr.actions) < MaxQueue
    /\ mgr' = m2
    /\ rule_queries' = rule_queries \ ruled
    /\ approval_queries' = (approval_queries \ approved) \cup asked
    /\ dial_queries' = (dial_queries \ dialled) \cup DialsRequired(Enqueued(mgr, m2))
    /\ UNCHANGED <<history, upgrades>>

\* The logs after a call of `op` that left the manager m2.
Logged(op, m2) ==
    [id \in RequestIds |->
        [requests[id] EXCEPT !.log = @ \o LogEntries(op, Enqueued(mgr, m2), id)]]

\* The rule queries a rule for `peer` in `direction` answers.
Answered(peer, direction) ==
    {<<peer, dir>> : dir \in {d \in RequestDirections :
                                \/ d = "Inbound" /\ is_inbound(direction)
                                \/ d = "Outbound" /\ is_outbound(direction)}}

\* Peers are interchangeable: the first peer the host ever names is p1.
HostPeers == IF requests = <<>> /\ next_connection_id = 1 THEN {"p1"} ELSE Peers

\* The rules the firewall may answer with for `peer` and `direction`.  The
\* rule of a direction is looked at only for a request of `peer` that awaits
\* the rule of that direction; where none does, the rule is left out (None).
RulesFor(peer, direction) ==
    LET awaited == IF peer \in DOMAIN mgr.awaiting_peer_rule
                   THEN DOMAIN mgr.awaiting_peer_rule[peer] ELSE {}
    IN {rules \in FirewallRules :
           /\ ~(is_inbound(direction) /\ "Inbound" \in awaited)
                  => rules.inbound.kind = "None"
           /\ ~(is_outbound(direction) /\ "Outbound" \in awaited)
                  => rules.outbound.kind = "None"}

Reports == Cardinality({id \in RequestIds : requests[id].reported})

Init ==
    /\ \E policy \in SelectionPolicies : mgr = RequestManager_new(policy)
    /\ next_connection_id = 1
    /\ requests = <<>>
    /\ rule_queries = {}
    /\ approval_queries = {}
    /\ dial_queries = {}
    /\ enqueued = <<>>
    /\ taken = [len |-> 0, next |-> <<>>, head |-> <<>>]
    /\ inbound_upgrade = ResponseProtocol("idle", "alive")
    /\ outbound_upgrade = RequestProtocol("idle", 0)

\* A request enters the manager with the next request id.
NewRequest ==
    \E peer \in HostPeers, status \in ApprovalStatus, dir \in RequestDirections,
       request \in PermissionValues :
        LET m2 == on_new_request(mgr, peer, next_request_id, request, status, dir) IN
        /\ next_request_id <= MaxRequests
        /\ mgr' = m2
        /\ ~mgr.panicked
        /\ Len(mgr.actions) < MaxQueue
        /\ rule_queries' = rule_queries \cup
                               (IF status = "MissingRule" THEN {<<peer, dir>>} ELSE {})
        /\ approval_queries' = approval_queries \cup
                                   (IF status = "MissingApproval" THEN {next_request_id} ELSE {})
        /\ dial_queries' = dial_queries \cup DialsRequired(Enqueued(mgr, m2))
        /\ requests' = Append(requests,
               [peer |-> peer, direction |-> dir, reported |-> FALSE, completed |-> FALSE,
                log |-> LogEntries("on_new_request", Enqueued(mgr, m2), next_request_id)])
        /\ UNCHANGED <<next_connection_id, history, upgrades>>

ConnectionEstablished ==
    \E peer \in HostPeers :
        LET m2 == on_connection_established(mgr, peer, next_connection_id) IN
        /\ next_connection_id <= MaxConnections
        /\ Call(m2, {}, {}, {}, {})
        /\ next_connection_id' = next_connection_id + 1
        /\ UNCHANGED requests

PeerConnected ==
    \E peer \in HostPeers :
        LET m2 == on_peer_connected(mgr, peer) IN
        /\ Call(m2, {},
                IF is_connected(mgr.connections, peer) THEN {peer} ELSE {}, {}, {})
        /\ requests' = Logged("on_peer_connected", m2)
        /\ UNCHANGED next_connection_id

\* The transport reports the closing of a connection of the peer it belongs
\* to, or of a connection that is already gone.
ConnectionClosed ==
    \E peer \in HostPeers, connection \in ConnectionIds :
        /\ connection \in DOMAIN mgr.connections.pending
              => \E i \in 1..Len(mgr.connections.connections[peer]) :
                     mgr.connections.connections[peer][i] = connection
        /\ \E m2 \in on_connection_closed(mgr, peer, connection) :
               /\ Call(m2, {}, {}, {}, {})
               /\ requests' = Logged("on_connection_closed", m2)
        /\ UNCHANGED next_connection_id

PeerDisconnected ==
    \E peer \in HostPeers :
        /\ \E m2 \in on_peer_disconnected(mgr, peer) :
               /\ Call(m2, {}, {}, {}, {})
               /\ requests' = Logged("on_peer_disconnected", m2)
        /\ UNCHANGED next_connection_id

DialFailure ==
    \E peer \in HostPeers :
        LET m2 == on_dial_failure(mgr, peer) IN
        /\ Call(m2, {}, {peer}, {}, {})
        /\ requests' = Logged("on_dial_failure", m2)
        /\ UNCHANGED next_connection_id

\* The ids of a require_ask list.
AskedIds(require_ask) == {require_ask[i][1] : i \in 1..Len(require_ask)}

PeerRule ==
    \E peer \in HostPeers, direction \in RuleDirections :
      \E rules \in RulesFor(peer, direction) :
        LET r == on_peer_rule(mgr, peer, rules, direction) IN
        /\ Call(r.m, AskedIds(r.require_ask), {}, {}, Answered(peer, direction))
        /\ requests' = Logged("on_peer_rule", r.m)
        /\ UNCHANGED next_connection_id

NoPeerRule ==
    \E peer \in HostPeers, direction \in RuleDirections :
        LET m2 == on_no_peer_rule(mgr, peer, direction) IN
        /\ Call(m2, {}, {}, {}, Answered(peer, direction))
        /\ requests' = Logged("on_no_peer_rule", m2)
        /\ UNCHANGED next_connection_id

RequestApproval ==
    \E request_id \in RequestIds, is_allowed \in BOOLEAN :
        LET m2 == on_request_approval(mgr, request_id, is_allowed).m IN
        /\ Call(m2, {}, {}, {request_id}, {})
        /\ requests' = Logged("on_request_approval", m2)
        /\ UNCHANGED next_connection_id

\* Whether request_id is in-flight on `connection` in direction dir.
InFlightOn(m, connection, request_id, dir) ==
    /\ connection \in DOMAIN m.connections.pending
    /\ request_id \in (IF dir = "Inbound"
                       THEN m.connections.pending[connection].inbound_requests
                       ELSE m.connections.pending[connection].outbound_requests)

\* The host's record of a request after the report of its protocol handler.
Reported(op, m2, request_id, connection) ==
    [Logged(op, m2) EXCEPT
        ![request_id].reported = TRUE,
        ![request_id].completed =
            InFlightOn(mgr, connection, request_id, requests[request_id].direction)]

\* The protocol handler of an inbound request reports its outcome, once.
ResForInbound ==
    \E request_id \in RequestIds, connection \in ConnectionIds, result \in ReportedResults :
        LET m2 == on_res_for_inbound(mgr, requests[request_id].peer, connection,
                                     request_id, result) IN
        /\ requests[request_id].direction = "Inbound"
        /\ ~requests[request_id].reported
        /\ Reports < MaxReports
        /\ Call(m2, {}, {}, {}, {})
        /\ requests' = Reported("on_res_for_inbound", m2, request_id, connection)
        /\ UNCHANGED next_connection_id

\* The protocol handler of an outbound request reports its outcome, once.
ResForOutbound ==
    \E request_id \in RequestIds, connection \in ConnectionIds, result \in ReportedResults :
        LET m2 == on_res_for_outbound(mgr, requests[request_id].peer, connection,
                                      request_id, result) IN
        /\ requests[request_id].direction = "Outbound"
        /\ ~requests[request_id].reported
        /\ Reports < MaxReports
        /\ Call(m2, {}, {}, {}, {})
        /\ requests' = Reported("on_res_for_outbound", m2, request_id, connection)
        /\ UNCHANGED next_connection_id

TakeNextAction ==
    /\ ~mgr.panicked
    /\ mgr.actions # <<>>
    /\ mgr' = take_next_action(mgr).m
    /\ UNCHANGED <<next_connection_id, requests, rule_queries, approval_queries,
                   dial_queries, history, upgrades>>

Next ==
    \/ NewRequest
    \/ ConnectionEstablished
    \/ PeerConnected
    \/ ConnectionClosed
    \/ PeerDisconnected
    \/ DialFailure
    \/ PeerRule
    \/ NoPeerRule
    \/ RequestApproval
    \/ ResForInbound
    \/ ResForOutbound
    \/ TakeNextAction

Spec == Init /\ [][Next]_vars

(***************************************************************************)
(* Runs of the firewall's side: requests are admitted and wait for rules   *)
(* and approvals, and the host marks rule queries it has issued on its own *)
(* account with add_pending_rule_requests.                                 *)
(***************************************************************************)
AddPendingRuleRequests ==
    \E peer \in HostPeers, direction \in RuleDirections :
        /\ ~mgr.panicked
        /\ Len(mgr.actions) < MaxQueue
        /\ mgr' = add_pending_rule_requests(mgr, peer, direction)
        /\ rule_queries' = rule_queries \cup Answered(peer, direction)
        /\ UNCHANGED <<next_connection_id, requests, approval_queries, dial_queries,
                       history, upgrades>>

RuleNext ==
    \/ NewRequest
    \/ AddPendingRuleRequests
    \/ PeerRule
    \/ NoPeerRule
    \/ RequestApproval
    \/ TakeNextAction

RuleSpec == Init /\ [][RuleNext]_vars

(***************************************************************************)
(* Runs that record the queue's traffic: the host calls the entry points   *)
(* whatever the queue holds, and take_next_action also on an empty queue.  *)
(***************************************************************************)
\* A call that left the manager m2, recorded.
Observed(m2) ==
    /\ ~mgr.panicked
    /\ Len(mgr.actions) < MaxObservedQueue
    /\ mgr' = m2
    /\ enqueued' = enqueued \o Enqueued(mgr, m2)
    /\ UNCHANGED <<taken, rule_queries, approval_queries, dial_queries, upgrades>>

\* The peers of the runs that record the queue's traffic.
ObservedPeers == {"p1"}

ObservedNewRequest ==
    \E peer \in ObservedPeers, status \in ApprovalStatus, dir \in RequestDirections,
       request \in PermissionValues :
        /\ next_request_id <= MaxRequests
        /\ Observed(on_new_request(mgr, peer, next_request_id, request, status, dir))
        /\ requests' = Append(requests,
               [peer |-> peer, direction |-> dir, reported |-> FALSE, completed |-> FALSE,
                log |-> <<>>])
        /\ UNCHANGED next_connection_id

ObservedConnectionEstablished ==
    \E peer \in ObservedPeers :
        /\ next_connection_id <= MaxConnections
        /\ Observed(on_connection_established(mgr, peer, next_connection_id))
        /\ next_connection_id' = next_connection_id + 1
        /\ UNCHANGED requests

ObservedPeerConnected ==
    \E peer \in ObservedPeers :
        /\ Observed(on_peer_connected(mgr, peer))
        /\ UNCHANGED <<next_connection_id, requests>>

ObservedPeerDisconnected ==
    \E peer \in ObservedPeers :
        /\ \E m2 \in on_peer_disconnected(mgr, peer) : Observed(m2)
        /\ UNCHANGED <<next_connection_id, requests>>

ObservedDialFailure ==
    \E peer \in ObservedPeers :
        /\ Observed(on_dial_failure(mgr, peer))
        /\ UNCHANGED <<next_connection_id, requests>>

ObservedRequestApproval ==
    \E request_id \in RequestIds, is_allowed \in BOOLEAN :
        /\ Observed(on_request_approval(mgr, request_id, is_allowed).m)
        /\ UNCHANGED <<next_connection_id, requests>>

\* The host reconfigures one connection (Some(connection)) or all connections
\* (None, 0) of a peer.
ObservedSetProtocolSupport ==
    \E peer \in ObservedPeers, connection \in {0} \cup ConnectionIds,
       protocol_support \in ProtocolSupports :
        /\ Observed(set_protocol_support(mgr, peer, connection, protocol_support))
        /\ UNCHANGED <<next_connection_id, requests>>

\* take_next_action, called on any queue.
ObservedTakeNextAction ==
    /\ ~mgr.panicked
    /\ mgr' = take_next_action(mgr).m
    /\ taken' = [len |-> Len(mgr.actions),
                 next |-> take_next_action(mgr).next,
                 head |-> IF enqueued = <<>> THEN <<>> ELSE <<Head(enqueued)>>]
    /\ enqueued' = IF enqueued = <<>> THEN <<>> ELSE Tail(enqueued)
    /\ UNCHANGED <<next_connection_id, requests, rule_queries, approval_queries,
                   dial_queries, upgrades>>

QueueNext ==
    \/ ObservedNewRequest
    \/ ObservedConnectionEstablished
    \/ ObservedPeerConnected
    \/ ObservedPeerDisconnected
    \/ ObservedDialFailure
    \/ ObservedRequestApproval
    \/ ObservedSetProtocolSupport
    \/ ObservedTakeNextAction

QueueSpec == Init /\ [][QueueNext]_vars

(***************************************************************************)
(* The substream upgrades as tasks: one inbound and one outbound upgrade,  *)
(* each on its own substream, with the manager's end of the request        *)
(* channel, the holder of the response sink and the caller of the outbound *)
(* request as their environment.                                           *)
(***************************************************************************)
manager_state == <<mgr, next_connection_id, requests, rule_queries, approval_queries,
                   dial_queries, enqueued, taken>>

UpgradeInit ==
    /\ \E policy \in SelectionPolicies : mgr = RequestManager_new(policy)
    /\ next_connection_id = 1
    /\ requests = <<>>
    /\ rule_queries = {}
    /\ approval_queries = {}
    /\ dial_queries = {}
    /\ enqueued = <<>>
    /\ taken = [len |-> 0, next |-> <<>>, head |-> <<>>]
    /\ \E receiver \in {"alive", "gone"} :
           inbound_upgrade = ResponseProtocol("read", receiver)
    /\ \E data \in Payloads : outbound_upgrade = RequestProtocol("write", data)

InboundRead ==
    /\ inbound_upgrade.pc = "read"
    /\ \E res \in ReadOneResults :
           inbound_upgrade' = upgrade_inbound_read(inbound_upgrade, res)
    /\ UNCHANGED <<manager_state, outbound_upgrade>>

\* The receiving end of request_tx is dropped before the query was taken
\* from it; a query in the channel is dropped with it.
ReceiverDropped ==
    /\ inbound_upgrade.pc \in {"read", "await"}
    /\ inbound_upgrade.receiver = "alive"
    /\ inbound_upgrade.sink \in {"none", "queued"}
    /\ inbound_upgrade' =
           [inbound_upgrade EXCEPT !.receiver = "gone",
                                   !.sink = IF @ = "queued" THEN "dropped" ELSE @]
    /\ UNCHANGED <<manager_state, outbound_upgrade>>

\* The query is received from request_tx; its holder has the response sink.
QueryReceived ==
    /\ inbound_upgrade.sink = "queued"
    /\ inbound_upgrade' = [inbound_upgrade EXCEPT !.sink = "held"]
    /\ UNCHANGED <<manager_state, outbound_upgrade>>

\* The holder of the response sink sends a response on it.
ResponseSent ==
    /\ inbound_upgrade.sink = "held"
    /\ \E response \in Payloads :
           inbound_upgrade' = [inbound_upgrade EXCEPT !.sink = "signaled",
                                                      !.sink_value = response]
    /\ UNCHANGED <<manager_state, outbound_upgrade>>

\* The holder of the response sink drops it.
SinkDropped ==
    /\ inbound_upgrade.sink = "held"
    /\ inbound_upgrade' = [inbound_upgrade EXCEPT !.sink = "dropped"]
    /\ UNCHANGED <<manager_state, outbound_upgrade>>

InboundAwait ==
    /\ inbound_upgrade.pc = "await"
    /\ inbound_upgrade.sink \in {"signaled", "dropped"}
    /\ inbound_upgrade' = upgrade_inbound_await(inbound_upgrade)
    /\ UNCHANGED <<manager_state, outbound_upgrade>>

InboundWrite ==
    /\ inbound_upgrade.pc = "write"
    /\ \E ok \in BOOLEAN : inbound_upgrade' = upgrade_inbound_write(inbound_upgrade, ok)
    /\ UNCHANGED <<manager_state, outbound_upgrade>>

InboundClose ==
    /\ inbound_upgrade.pc \in {"write_close", "close"}
    /\ \E ok \in BOOLEAN : inbound_upgrade' = upgrade_inbound_close(inbound_upgrade, ok)
    /\ UNCHANGED <<manager_state, outbound_upgrade>>

OutboundWrite ==
    /\ outbound_upgrade.pc = "write"
    /\ \E ok \in BOOLEAN : outbound_upgrade' = upgrade_outbound_write(outbound_upgrade, ok)
    /\ UNCHANGED <<manager_state, inbound_upgrade>>

OutboundClose ==
    /\ outbound_upgrade.pc = "write_close"
    /\ \E ok \in BOOLEAN : outbound_upgrade' = upgrade_outbound_close(outbound_upgrade, ok)
    /\ UNCHANGED <<manager_state, inbound_upgrade>>

OutboundRead ==
    /\ outbound_upgrade.pc = "read"
    /\ \E res \in ReadOneResults :
           outbound_upgrade' = upgrade_outbound_read(outbound_upgrade, res)
    /\ UNCHANGED <<manager_state, inbound_upgrade>>

\* The caller drops the receiving end of the response channel while the task
\* runs.
CallerDropped ==
    /\ outbound_upgrade.pc \in {"write", "write_close", "read"}
    /\ outbound_upgrade.caller = "waiting"
    /\ outbound_upgrade' = [outbound_upgrade EXCEPT !.caller = "dropped"]
    /\ UNCHANGED <<manager_state, inbound_upgrade>>

UpgradeNext ==
    \/ InboundRead
    \/ ReceiverDropped
    \/ QueryReceived
    \/ ResponseSent
    \/ SinkDropped
    \/ InboundAwait
    \/ InboundWrite
    \/ InboundClose
    \/ OutboundWrite
    \/ OutboundClose
    \/ OutboundRead
    \/ CallerDropped

UpgradeSpec == UpgradeInit /\ [][UpgradeNext]_vars

(***************************************************************************)
(* Properties.                                                             *)
(***************************************************************************)
SeqRange(seq) == {seq[i] : i \in 1..Len(seq)}

IsReady(entry) == entry.type \in {"InboundReady", "OutboundReady"}
IsFailure(entry) == entry.type \in {"InboundFailure", "OutboundFailure"}

\* The actions carrying the id that the manager's own transitions pushed: the
\* log without the failures forwarded from on_res_for_* reports.
OwnLog(request_id) == SelectSeq(requests[request_id].log, LAMBDA e : ~e.report)

StoredIds(m) == (DOMAIN m.inbound_request_store) \cup (DOMAIN m.outbound_request_store)

\* Every listing of a request id in a waiting set, as [set, dir, at, id]: `at`
\* tells the listings of one id in one set apart.
WaitingEntries(m) ==
    UNION {{[set |-> "awaiting_connection", dir |-> "Outbound", at |-> <<p, i>>,
             id |-> m.awaiting_connection[p][i]] :
               i \in 1..Len(m.awaiting_connection[p])} :
           p \in DOMAIN m.awaiting_connection}
    \cup UNION {UNION {{[set |-> "awaiting_peer_rule", dir |-> d, at |-> <<p, i>>,
                        id |-> m.awaiting_peer_rule[p][d][i]] :
                          i \in 1..Len(m.awaiting_peer_rule[p][d])} :
                       d \in DOMAIN m.awaiting_peer_rule[p]} :
                p \in DOMAIN m.awaiting_peer_rule}
    \cup {[set |-> "awaiting_approval", dir |-> m.awaiting_approval[i][2],
           at |-> <<"-", i>>, id |-> m.awaiting_approval[i][1]] :
             i \in 1..Len(m.awaiting_approval)}

WaitingIds(m) == {e.id : e \in WaitingEntries(m)}

C2_AnsweredQueriesResolveRequests ==
    (rule_queries = {} /\ approval_queries = {} /\ dial_queries = {})
        => \A id \in RequestIds :
               /\ requests[id].log # <<>>
               /\ id \notin WaitingIds(mgr)

\* C3: awaiting_approval is sorted by RequestId in strictly ascending order.
C3_AwaitingApprovalSorted ==
    \A i, j \in 1..Len(mgr.awaiting_approval) :
        i < j => mgr.awaiting_approval[i][1] < mgr.awaiting_approval[j][1]

\* C4: a RequestId is a key of a request store if and only if it is listed in
\* a waiting set, and the store holding it is that of the direction the waiting
\* set records for it (the outbound store for awaiting_connection).
C4_StoredIffWaiting ==
    /\ DOMAIN mgr.inbound_request_store =
           {e.id : e \in {w \in WaitingEntries(mgr) : w.dir = "Inbound"}}
    /\ DOMAIN mgr.outbound_request_store =
           {e.id : e \in {w \in WaitingEntries(mgr) : w.dir = "Outbound"}}

\* A request is stored and waiting while another one has left its store with
\* an outcome.
C4_Witness ==
    \E id, gone \in RequestIds :
        /\ id \in StoredIds(mgr)
        /\ id \in WaitingIds(mgr)
        /\ gone \notin StoredIds(mgr)
        /\ requests[gone].log # <<>>
        /\ gone \notin WaitingIds(mgr)

\* C5: each RequestId is listed at most once across awaiting_connection,
\* awaiting_peer_rule and awaiting_approval taken together.
C5_WaitingSetsDisjoint ==
    \A a, b \in WaitingEntries(mgr) : a.id = b.id => a = b

\* Requests wait in two different waiting sets at once.
C5_Witness ==
    \E a, b \in WaitingEntries(mgr) : a.set # b.set /\ a.id # b.id

\* The request ids in-flight on the connections the connection manager tracks.
InFlightIds(m) ==
    UNION {m.connections.pending[c].outbound_requests
               \cup m.connections.pending[c].inbound_requests :
           c \in DOMAIN m.connections.pending}

HandedOut(request_id) ==
    \E i \in 1..Len(requests[request_id].log) : IsReady(requests[request_id].log[i])

\* C6: the response sink of a request is never held in two places: no
\* RequestId is a key of both stores, none is both a key of a store and
\* in-flight on a connection, and a request handed out in a Ready action is in
\* no store.
C6_SinkHeldOnce ==
    /\ (DOMAIN mgr.inbound_request_store) \cap (DOMAIN mgr.outbound_request_store) = {}
    /\ StoredIds(mgr) \cap InFlightIds(mgr) = {}
    /\ \A id \in RequestIds : HandedOut(id) => id \notin StoredIds(mgr)

\* A request was just handed out Ready and is in-flight on a connection, while
\* another request is still stored.
C6_Witness ==
    \E id, other \in RequestIds :
        /\ id \in InFlightIds(mgr)
        /\ Len(requests[id].log) = 1
        /\ HandedOut(id)
        /\ other \in StoredIds(mgr)
        /\ mgr.actions # <<>>
        /\ IsReady(mgr.actions[1])
        /\ mgr.actions[1].request_id = id

\* What a call of on_connection_closed(peer, connection) for a live connection
\* has to leave, from the state before the call (unprimed) to the state after
\* it (primed).
ClosedFailuresEnqueued(peer, connection) ==
    LET pending == mgr.connections.pending[connection]
        pushed == Enqueued(mgr, mgr')
        Count(action) == Cardinality({i \in 1..Len(pushed) : pushed[i] = action})
    IN /\ SubSeq(mgr'.actions, 1, Len(mgr.actions)) = mgr.actions
       /\ Len(pushed) = Cardinality(pending.outbound_requests)
                            + Cardinality(pending.inbound_requests)
       /\ \A id \in pending.outbound_requests :
              Count(OutboundFailure(peer, id, "ConnectionClosed")) = 1
       /\ \A id \in pending.inbound_requests :
              Count(InboundFailure(peer, id, "ConnectionClosed")) = 1
       /\ \A id \in RequestIds \ (pending.outbound_requests \cup pending.inbound_requests) :
              requests'[id].log = requests[id].log

\* C7: on_connection_closed(peer, conn) enqueues exactly one ConnectionClosed
\* failure per request id in-flight on conn immediately before the call, an
\* OutboundFailure for the ids of its outbound set and an InboundFailure for
\* those of its inbound set, as many failures as the sets hold ids, and nothing
\* for any other request.
C7_ClosedConnectionFailures ==
    [][\A peer \in Peers, connection \in ConnectionIds :
          (/\ connection \in DOMAIN mgr.connections.pending
           /\ mgr' \in on_connection_closed(mgr, peer, connection))
              => ClosedFailuresEnqueued(peer, connection)]_vars

\* The connection of a request in-flight was closed and its ConnectionClosed
\* failure is in the queue, while another request is in-flight on another
\* connection with nothing but its Ready enqueued.
C7_Witness ==
    \E id, other \in RequestIds :
        /\ id # other
        /\ Len(requests[id].log) = 2
        /\ IsReady(requests[id].log[1])
        /\ requests[id].log[2].reason = "ConnectionClosed"
        /\ \E i \in 1..Len(mgr.actions) :
               /\ mgr.actions[i].request_id = id
               /\ mgr.actions[i].reason = "ConnectionClosed"
        /\ other \in InFlightIds(mgr)
        /\ Len(requests[other].log) = 1

\* The manager with its queue taken as the bag of the actions it holds.
Unordered(m) ==
    [m EXCEPT !.actions =
        [action \in SeqRange(m.actions) |->
            Cardinality({i \in 1..Len(m.actions) : m.actions[i] = action})]]

\* C8: on_peer_disconnected(peer) leaves what closing every live connection
\* of the peer with on_connection_closed leaves: the same manager and the same
\* queue when the connections are closed in the order the peer holds them, and
\* the same manager and the same failures in the queue in any other order.
C8_DisconnectClosesEveryConnection ==
    \A peer \in Peers :
        LET conns == get_connections(mgr.connections, peer) IN
        /\ on_peer_disconnected(mgr, peer) = close_connections({mgr}, peer, conns)
        /\ \A order \in Orders(SeqRange(conns)) :
               {Unordered(m) : m \in on_peer_disconnected(mgr, peer)}
                   = {Unordered(m) : m \in close_connections({mgr}, peer, order)}

\* A peer with two live connections, requests in-flight on both, for which
\* on_peer_disconnected enqueues the two failures.
C8_Witness ==
    \E peer \in Peers :
        LET conns == get_connections(mgr.connections, peer) IN
        /\ Len(conns) = 2
        /\ \A i \in 1..2 : mgr.connections.pending[conns[i]] # NoPendingResponses
        /\ \A m \in on_peer_disconnected(mgr, peer) :
               /\ Len(Enqueued(mgr, m)) = 2
               /\ InFlightIds(m) = {}

Terminal(request_id) ==
    \/ requests[request_id].completed
    \/ \E i \in 1..Len(requests[request_id].log) : IsFailure(requests[request_id].log[i])

\* C10: DONE and FAILED are terminal: once a request is DONE or FAILED, no
\* later manager operation enqueues another action carrying its id.
C10_TerminalIsFinal ==
    [][\A id \in RequestIds :
          Terminal(id) => requests'[id].log = requests[id].log]_vars

\* C11: take_next_action returns the actions in the order in which they were
\* enqueued: every call returns the oldest action enqueued and not yet
\* returned, what is left in the queue are the actions enqueued after it, in
\* order, and None is returned only from an empty queue.
C11_TakenInEnqueuedOrder ==
    /\ taken.next = taken.head
    /\ mgr.actions = enqueued
    /\ taken.next = <<>> => taken.len = 0

\* An action was returned from a queue that held several different actions,
\* the others are still queued.
C11_Witness ==
    /\ taken.next # <<>>
    /\ taken.len >= 3
    /\ Len(mgr.actions) >= 2
    /\ mgr.actions[1] # taken.next[1]
    /\ mgr.actions[Len(mgr.actions)] # taken.next[1]
    /\ mgr.actions[Len(mgr.actions)] # mgr.actions[1]

\* The ids waiting for a rule of `peer` in direction dir.
AwaitingRule(m, peer, dir) ==
    IF peer \in DOMAIN m.awaiting_peer_rule /\ dir \in DOMAIN m.awaiting_peer_rule[peer]
    THEN m.awaiting_peer_rule[peer][dir]
    ELSE <<>>

\* C12: add_pending_rule_requests(peer, dir) is idempotent: a second call
\* leaves the manager the first call left, and a call leaves the ids that wait
\* for a rule, of any peer and direction, as they were listed.
C12_AddPendingIdempotent ==
    \A peer \in Peers, direction \in RuleDirections :
        LET once == add_pending_rule_requests(mgr, peer, direction)
            twice == add_pending_rule_requests(once, peer, direction)
        IN /\ twice = once
           /\ \A p \in Peers, d \in RequestDirections :
                  AwaitingRule(once, p, d) = AwaitingRule(mgr, p, d)

\* add_pending_rule_requests was called for a peer of which a request waits
\* for the rule of one direction: the other direction is marked pending with
\* no id, and the request is still listed.
C12_Witness ==
    \E peer \in Peers, d, e \in RequestDirections :
        /\ peer \in DOMAIN mgr.awaiting_peer_rule
        /\ DOMAIN mgr.awaiting_peer_rule[peer] = {d, e}
        /\ mgr.awaiting_peer_rule[peer][d] # <<>>
        /\ mgr.awaiting_peer_rule[peer][e] = <<>>
        /\ add_pending_rule_requests(mgr, peer, "Both") = mgr

\* The ids awaiting a connection to `peer`.
AwaitingConnection(m, peer) ==
    IF peer \in DOMAIN m.awaiting_connection THEN m.awaiting_connection[peer] ELSE <<>>

\* The ids that wait for a rule or an approval in direction dir.
AwaitingDecision(m, dir) ==
    {e.id : e \in {w \in WaitingEntries(m) :
                      w.set # "awaiting_connection" /\ w.dir = dir}}

\* What the manager m2 after a call holds of an approved outbound request that
\* could not be attached, m1 being the manager before the call.
QueuedForDial(m1, m2, peer, request_id, request) ==
    /\ request_id \in DOMAIN m2.outbound_request_store
    /\ m2.outbound_request_store[request_id] = [peer |-> peer, request |-> request]
    /\ request_id \notin DOMAIN m2.inbound_request_store
    /\ AwaitingConnection(m2, peer) = Append(AwaitingConnection(m1, peer), request_id)
    /\ SubSeq(m2.actions, 1, Len(m1.actions)) = m1.actions
    /\ Enqueued(m1, m2) = <<RequireDialAttempt(peer)>>

\* C13: an approved outbound request that cannot be attached, its peer having
\* no eligible connection, is in outbound_request_store afterwards, its id is
\* appended to awaiting_connection[peer] and the one action enqueued is
\* RequireDialAttempt(peer); both on on_new_request with status Approved and on
\* a positive approval by handle_request_approval.
C13_UnattachedOutboundDials ==
    /\ \A peer \in Peers, request \in PermissionValues :
           ~add_request(mgr.connections, peer, next_request_id, "Outbound").some
               => QueuedForDial(mgr,
                      on_new_request(mgr, peer, next_request_id, request,
                                     "Approved", "Outbound"),
                      peer, next_request_id, request)
    /\ \A id \in AwaitingDecision(mgr, "Outbound") :
           LET stored == mgr.outbound_request_store[id]
               approved == handle_request_approval(mgr, id, "Outbound", TRUE)
           IN ~add_request(mgr.connections, stored.peer, id, "Outbound").some
                  => /\ approved.some
                     /\ QueuedForDial(mgr, approved.m, stored.peer, id, stored.request)

\* Two approved outbound requests await the connection of one peer, the dial
\* attempt of the second is in the queue and nothing was enqueued for either.
C13_Witness ==
    \E peer \in Peers :
        /\ Len(AwaitingConnection(mgr, peer)) = 2
        /\ mgr.actions = <<RequireDialAttempt(peer)>>
        /\ \A id \in RequestIds :
               /\ id \in DOMAIN mgr.outbound_request_store
               /\ requests[id].log = <<>>

\* The map without the keys in `keys`.
Without(map, keys) == [k \in (DOMAIN map) \ keys |-> map[k]]

\* C14: on_dial_failure(peer) removes the stored request of every id in
\* awaiting_connection[peer] and enqueues OutboundFailure{id, DialFailure} for
\* each, in the list's order; afterwards awaiting_connection has no entry for
\* peer, and everything else (the requests awaiting connections to other peers,
\* rules or approvals, the inbound store, the connections) is unchanged.
C14_DialFailureFailsAwaiting ==
    \A peer \in Peers :
        LET ids == AwaitingConnection(mgr, peer) IN
        on_dial_failure(mgr, peer) =
            [mgr EXCEPT
                !.awaiting_connection = Without(@, {peer}),
                !.outbound_request_store = Without(@, SeqRange(ids)),
                !.actions = @ \o [i \in 1..Len(ids) |->
                                     OutboundFailure(peer, ids[i], "DialFailure")]]

\* The dial to a peer failed and the request that awaited it has its
\* DialFailure in the queue and is no longer stored, while another request
\* still waits.
C14_Witness ==
    \E id, other \in RequestIds :
        /\ mgr.actions = <<OutboundFailure(requests[id].peer, id, "DialFailure")>>
        /\ id \notin StoredIds(mgr)
        /\ requests[id].peer \notin DOMAIN mgr.awaiting_connection
        /\ other \in WaitingIds(mgr)
        /\ other \in StoredIds(mgr)

\* What on_peer_connected(peer) has to leave (m2) of the ids that awaited the
\* connection in m1, the peer having a connection.
AwaitingHandedOut(m1, m2, peer) ==
    LET ids == AwaitingConnection(m1, peer)
        pushed == Enqueued(m1, m2)
    IN /\ ~m2.panicked
       /\ peer \notin DOMAIN m2.awaiting_connection
       /\ Without(m2.awaiting_connection, {peer}) = Without(m1.awaiting_connection, {peer})
       /\ m2.outbound_request_store = Without(m1.outbound_request_store, SeqRange(ids))
       /\ SubSeq(m2.actions, 1, Len(m1.actions)) = m1.actions
       /\ Len(pushed) = Len(ids)
       /\ \A i \in 1..Len(ids) :
              /\ pushed[i] = OutboundReady(ids[i], peer, pushed[i].connection,
                                           m1.outbound_request_store[ids[i]].request)
              /\ pushed[i].connection \in SeqRange(get_connections(m2.connections, peer))
              /\ InFlightOn(m2, pushed[i].connection, ids[i], "Outbound")

\* C15: on_peer_connected(peer), the peer having a connection, takes every id
\* of awaiting_connection[peer] from the outbound store, attaches it to one of
\* the peer's connections and enqueues one OutboundReady naming that
\* connection, in the list's order, and empties awaiting_connection[peer]; the
\* peer having no connection, the call changes nothing.
C15_PeerConnectedHandsOut ==
    \A peer \in Peers :
        IF is_connected(mgr.connections, peer)
        THEN AwaitingHandedOut(mgr, on_peer_connected(mgr, peer), peer)
        ELSE on_peer_connected(mgr, peer) = mgr

\* Two requests await the connection of a peer that has got one:
\* on_peer_connected hands them out in the order of the list, on that
\* connection, and leaves nothing stored.
C15_Witness ==
    \E peer \in Peers :
        LET ids == AwaitingConnection(mgr, peer)
            m2 == on_peer_connected(mgr, peer)
        IN /\ Len(ids) = 2
           /\ Len(get_connections(mgr.connections, peer)) = 1
           /\ mgr.actions = <<>>
           /\ Len(m2.actions) = 2
           /\ \A i \in 1..2 :
                  /\ m2.actions[i].type = "OutboundReady"
                  /\ m2.actions[i].request_id = ids[i]
                  /\ m2.actions[i].connection = get_connections(mgr.connections, peer)[1]
           /\ StoredIds(m2) = {}

\* The stored request of an id: [peer, request].
Stored(m, request_id) ==
    IF request_id \in DOMAIN m.inbound_request_store
    THEN m.inbound_request_store[request_id]
    ELSE m.outbound_request_store[request_id]

\* C16: for every id listed in awaiting_approval, in whatever order the
\* entries were added, on_request_approval(id, allowed) returns Some, removes
\* exactly the entry of the id and resolves the request: allowed = false
\* enqueues the NotPermitted failure of its direction, allowed = true with the
\* peer connected enqueues its InboundReady or OutboundReady.
C16_ApprovalFindsListedId ==
    \A i \in 1..Len(mgr.awaiting_approval), is_allowed \in BOOLEAN :
        LET id == mgr.awaiting_approval[i][1]
            dir == mgr.awaiting_approval[i][2]
            peer == Stored(mgr, id).peer
            approval == on_request_approval(mgr, id, is_allowed)
            pushed == Enqueued(mgr, approval.m)
        IN /\ approval.some
           /\ approval.m.awaiting_approval = RemoveAt(mgr.awaiting_approval, i)
           /\ ~is_allowed => pushed = <<NotPermitted(dir, peer, id)>>
           /\ (is_allowed /\ is_connected(mgr.connections, peer))
                  => /\ Len(pushed) = 1
                     /\ IsReady(pushed[1])
                     /\ pushed[1].request_id = id
                     /\ pushed[1].type = (IF dir = "Inbound" THEN "InboundReady"
                                          ELSE "OutboundReady")

\* The rule of `rules` for requests of direction d.
RuleOf(rules, d) == IF d = "Inbound" THEN rules.inbound ELSE rules.outbound

\* Whether the RuleDirection `direction` covers requests of direction d.
Covers(direction, d) ==
    \/ d = "Inbound" /\ is_inbound(direction)
    \/ d = "Outbound" /\ is_outbound(direction)

\* The ids of `peer` that wait for the rule of direction d and get the rule
\* kind `kind` from on_peer_rule(peer, rules, direction), in the list's order.
Ruled(m, peer, rules, direction, d, kind) ==
    IF Covers(direction, d) /\ RuleOf(rules, d).kind = kind
    THEN AwaitingRule(m, peer, d)
    ELSE <<>>

\* The ids of a list, each with direction d.
WithDirection(ids, d) == [i \in 1..Len(ids) |-> <<ids[i], d>>]

\* C17: on_peer_rule(peer, rules, dir) with Rule::Ask for a direction d that
\* dir covers: every id waiting in awaiting_peer_rule[peer][d] stays in its
\* store, is appended to awaiting_approval with direction d and is once in the
\* returned list, as (id, permission, d); no action carrying such an id is
\* enqueued, and the returned list holds no other id.
C17_AskMovesToApproval ==
    \A peer \in DOMAIN mgr.awaiting_peer_rule, direction \in RuleDirections :
        \A rules \in RulesFor(peer, direction) :
            LET ruled == on_peer_rule(mgr, peer, rules, direction)
                asked == WithDirection(Ruled(mgr, peer, rules, direction, "Inbound", "Ask"),
                                       "Inbound")
                         \o WithDirection(Ruled(mgr, peer, rules, direction, "Outbound", "Ask"),
                                          "Outbound")
            IN /\ ruled.some
               /\ ruled.m.awaiting_approval = mgr.awaiting_approval \o asked
               /\ ruled.require_ask =
                      [i \in 1..Len(asked) |->
                          <<asked[i][1], Stored(mgr, asked[i][1]).request, asked[i][2]>>]
               /\ \A i \in 1..Len(asked) :
                      /\ (IF asked[i][2] = "Inbound"
                          THEN asked[i][1] \in DOMAIN ruled.m.inbound_request_store
                          ELSE asked[i][1] \in DOMAIN ruled.m.outbound_request_store)
                      /\ Stored(ruled.m, asked[i][1]) = Stored(mgr, asked[i][1])
                      /\ \A k \in 1..Len(Enqueued(mgr, ruled.m)) :
                             Enqueued(mgr, ruled.m)[k].request_id # asked[i][1]

\* A request that waited for a rule was moved to awaiting_approval by
\* Rule::Ask, behind a request admitted after it, and its approval query is
\* open; both are stored and nothing was enqueued for them.
C17_Witness ==
    /\ Len(mgr.awaiting_approval) = 2
    /\ mgr.awaiting_approval[1][1] = 2
    /\ mgr.awaiting_approval[2][1] = 1
    /\ mgr.awaiting_approval[2][2] = "Outbound"
    /\ 1 \in DOMAIN mgr.outbound_request_store
    /\ approval_queries = {1, 2}
    /\ rule_queries = {}
    /\ mgr.actions = <<>>
    /\ \A id \in RequestIds : requests[id].log = <<>>

\* The concatenation of a sequence of sequences.
RECURSIVE Concat(_)
Concat(seqs) == IF seqs = <<>> THEN <<>> ELSE Head(seqs) \o Concat(Tail(seqs))

\* The ids of `peer` that on_peer_rule(peer, rules, direction) resolves at
\* once, each with its direction: those of a covered direction whose rule is
\* Permission or is absent.
Resolved(m, peer, rules, direction) ==
    LET of(d) == IF Covers(direction, d) /\ RuleOf(rules, d).kind # "Ask"
                 THEN WithDirection(AwaitingRule(m, peer, d), d)
                 ELSE <<>>
    IN of("Inbound") \o of("Outbound")

\* Whether the rule of direction d lets the stored request of the id pass.
Permitted(m, rules, request_id, d) ==
    /\ RuleOf(rules, d).kind = "Permission"
    /\ Stored(m, request_id).request \in RuleOf(rules, d).permission

\* What the resolution of one request enqueues, given the manager before the
\* call: NotPermitted if the rule does not let it pass, otherwise what a
\* positive approval enqueues.
Resolution(m, peer, rules, request_id, d) ==
    LET attached == add_request(m.connections, peer, request_id, d)
        request == Stored(m, request_id).request
    IN IF ~Permitted(m, rules, request_id, d)
       THEN NotPermitted(d, peer, request_id)
       ELSE IF attached.some
            THEN (IF d = "Inbound"
                  THEN InboundReady(request_id, peer, request)
                  ELSE OutboundReady(request_id, peer, attached.connection, request))
            ELSE IF d = "Outbound"
                 THEN RequireDialAttempt(peer)
                 ELSE InboundFailure(peer, request_id, "ConnectionClosed")

\* C18: on_peer_rule with Rule::Permission(p) or with no rule for a covered
\* direction d resolves each id waiting in d at once: the id is neither added
\* to awaiting_approval nor returned; if p does not permit its permission
\* value, or the rule is absent, the stored request is removed and the
\* NotPermitted failure of direction d is enqueued; if p permits it, the
\* outcome is that of a positive approval: Ready on a connection it is attached
\* to, RequireDialAttempt and a place in awaiting_connection for an unattached
\* outbound request, InboundFailure{ConnectionClosed} for an unattached inbound
\* one.
C18_RuleResolvesAtOnce ==
    \A peer \in DOMAIN mgr.awaiting_peer_rule, direction \in RuleDirections :
        \A rules \in RulesFor(peer, direction) :
            LET ruled == on_peer_rule(mgr, peer, rules, direction)
                resolved == Resolved(mgr, peer, rules, direction)
                dialled(i) == /\ Permitted(mgr, rules, resolved[i][1], resolved[i][2])
                              /\ resolved[i][2] = "Outbound"
                              /\ ~is_connected(mgr.connections, peer)
            IN /\ Enqueued(mgr, ruled.m) =
                      [i \in 1..Len(resolved) |->
                          Resolution(mgr, peer, rules, resolved[i][1], resolved[i][2])]
               /\ AwaitingConnection(ruled.m, peer) =
                      AwaitingConnection(mgr, peer)
                      \o Concat([i \in 1..Len(resolved) |->
                                    IF dialled(i) THEN <<resolved[i][1]>> ELSE <<>>])
               /\ \A i \in 1..Len(resolved) :
                      LET request_id == resolved[i][1]
                          d == resolved[i][2]
                          attached == add_request(mgr.connections, peer, request_id, d)
                      IN /\ request_id \notin AskedIds(ruled.require_ask)
                         /\ \A k \in 1..Len(ruled.m.awaiting_approval) :
                                ruled.m.awaiting_approval[k][1] # request_id
                         /\ request_id \in StoredIds(ruled.m) <=> dialled(i)
                         /\ dialled(i) => Stored(ruled.m, request_id) = Stored(mgr, request_id)
                         /\ Permitted(mgr, rules, request_id, d) /\ attached.some
                                => InFlightOn(ruled.m, attached.connection, request_id, d)

\* A connected peer has an inbound and an outbound request waiting for its
\* rule; a rule for both directions that permits the inbound value and no
\* outbound value hands the first out and fails the second.
C18_Witness ==
    /\ AwaitingRule(mgr, "p1", "Inbound") = <<1>>
    /\ AwaitingRule(mgr, "p1", "Outbound") = <<2>>
    /\ is_connected(mgr.connections, "p1")
    /\ mgr.actions = <<>>
    /\ LET rules == [inbound |-> [kind |-> "Permission", permission |-> {1}],
                     outbound |-> [kind |-> "Permission", permission |-> {}]]
           ruled == on_peer_rule(mgr, "p1", rules, "Both")
       IN /\ rules \in RulesFor("p1", "Both")
          /\ ruled.require_ask = <<>>
          /\ ruled.m.actions = <<InboundReady(1, "p1", 1),
                                 OutboundFailure("p1", 2, "NotPermitted")>>
          /\ StoredIds(ruled.m) = {}
          /\ "p1" \notin DOMAIN ruled.m.awaiting_peer_rule

\* A call for `peer` and `direction` that took the manager from m1 to m2 left
\* alone what `direction` does not cover: the ids of the peer that wait for the
\* rule of the other direction still wait, in the same order, stay stored as
\* they were and got no action; the entries of the other peers are as before;
\* the peer has an entry afterwards exactly if a direction is left pending.
OnlyCovered(m1, m2, peer, direction) ==
    /\ \A d \in RequestDirections :
           ~Covers(direction, d) =>
               /\ AwaitingRule(m2, peer, d) = AwaitingRule(m1, peer, d)
               /\ \A i \in 1..Len(AwaitingRule(m1, peer, d)) :
                      LET request_id == AwaitingRule(m1, peer, d)[i] IN
                      /\ request_id \in DOMAIN m2.inbound_request_store
                             <=> request_id \in DOMAIN m1.inbound_request_store
                      /\ request_id \in DOMAIN m2.outbound_request_store
                             <=> request_id \in DOMAIN m1.outbound_request_store
                      /\ Stored(m2, request_id) = Stored(m1, request_id)
                      /\ \A k \in 1..Len(Enqueued(m1, m2)) :
                             Enqueued(m1, m2)[k].request_id # request_id
    /\ \A other \in Peers \ {peer} :
           /\ other \in DOMAIN m2.awaiting_peer_rule <=> other \in DOMAIN m1.awaiting_peer_rule
           /\ other \in DOMAIN m1.awaiting_peer_rule
                  => m2.awaiting_peer_rule[other] = m1.awaiting_peer_rule[other]
    /\ peer \in DOMAIN m2.awaiting_peer_rule
           <=> /\ peer \in DOMAIN m1.awaiting_peer_rule
               /\ \E d \in DOMAIN m1.awaiting_peer_rule[peer] : ~Covers(direction, d)
    /\ peer \in DOMAIN m2.awaiting_peer_rule
           => DOMAIN m2.awaiting_peer_rule[peer] =
                  {d \in DOMAIN m1.awaiting_peer_rule[peer] : ~Covers(direction, d)}

\* C19: on_peer_rule(peer, rules, dir) and on_no_peer_rule(peer, dir) touch
\* only the directions dir covers: the requests of the peer waiting in the
\* other direction stay in awaiting_peer_rule[peer] and in their store and get
\* no action, the entries of other peers are unchanged, and the peer's entry is
\* removed exactly when no direction remains pending for it.
C19_RuleTouchesCoveredOnly ==
    \A peer \in Peers, direction \in RuleDirections :
        /\ \A rules \in RulesFor(peer, direction) :
               OnlyCovered(mgr, on_peer_rule(mgr, peer, rules, direction).m, peer, direction)
        /\ OnlyCovered(mgr, on_no_peer_rule(mgr, peer, direction), peer, direction)

\* A peer has a request waiting for each direction's rule; a rule for the
\* inbound direction alone, and the report that there is none, both leave the
\* outbound request waiting and stored.
C19_Witness ==
    /\ AwaitingRule(mgr, "p1", "Inbound") = <<1>>
    /\ AwaitingRule(mgr, "p1", "Outbound") = <<2>>
    /\ mgr.actions = <<>>
    /\ LET rules == [inbound |-> [kind |-> "Permission", permission |-> {}],
                     outbound |-> [kind |-> "None", permission |-> {}]]
           ruled == on_peer_rule(mgr, "p1", rules, "Inbound").m
           unruled == on_no_peer_rule(mgr, "p1", "Inbound")
       IN /\ rules \in RulesFor("p1", "Inbound")
          /\ ruled.awaiting_peer_rule = [p1 |-> [Outbound |-> <<2>>]]
          /\ ruled = unruled
          /\ StoredIds(unruled) = {2}
          /\ unruled.actions = <<InboundFailure("p1", 1, "NotPermitted")>>
          /\ "p1" \notin DOMAIN on_no_peer_rule(unruled, "p1", "Outbound").awaiting_peer_rule

\* The ids of `peer` that wait for the rule of a direction `direction` covers,
\* each with its direction, inbound ones first.
AwaitingCovered(m, peer, direction) ==
    LET of(d) == IF Covers(direction, d)
                 THEN WithDirection(AwaitingRule(m, peer, d), d)
                 ELSE <<>>
    IN of("Inbound") \o of("Outbound")

\* C20: on_no_peer_rule(peer, dir) fails every request of the peer that waits
\* for a rule of a direction dir covers: each such id is removed from
\* awaiting_peer_rule and from its store and gets exactly one failure, the
\* NotPermitted failure of its own direction; nothing else is enqueued.
C20_NoRuleFailsAwaiting ==
    \A peer \in Peers, direction \in RuleDirections :
        LET m2 == on_no_peer_rule(mgr, peer, direction)
            failed == AwaitingCovered(mgr, peer, direction)
        IN /\ SubSeq(m2.actions, 1, Len(mgr.actions)) = mgr.actions
           /\ Enqueued(mgr, m2) =
                  [i \in 1..Len(failed) |-> NotPermitted(failed[i][2], peer, failed[i][1])]
           /\ \A i \in 1..Len(failed) :
                  /\ failed[i][1] \notin StoredIds(m2)
                  /\ \A p \in Peers, d \in RequestDirections :
                         \A k \in 1..Len(AwaitingRule(m2, p, d)) :
                             AwaitingRule(m2, p, d)[k] # failed[i][1]
           /\ m2.inbound_request_store =
                  Without(mgr.inbound_request_store,
                          {failed[i][1] : i \in {k \in 1..Len(failed) : failed[k][2] = "Inbound"}})
           /\ m2.outbound_request_store =
                  Without(mgr.outbound_request_store,
                          {failed[i][1] : i \in {k \in 1..Len(failed) : failed[k][2] = "Outbound"}})
           /\ m2.awaiting_approval = mgr.awaiting_approval
           /\ m2.awaiting_connection = mgr.awaiting_connection
           /\ m2.connections = mgr.connections

\* A peer has a request waiting for each direction's rule; the report that it
\* has no rule for either direction fails both, the inbound one first, and
\* leaves nothing stored or waiting.
C20_Witness ==
    /\ AwaitingRule(mgr, "p1", "Inbound") = <<2>>
    /\ AwaitingRule(mgr, "p1", "Outbound") = <<1>>
    /\ mgr.actions = <<>>
    /\ LET m2 == on_no_peer_rule(mgr, "p1", "Both")
       IN /\ m2.actions = <<InboundFailure("p1", 2, "NotPermitted"),
                            OutboundFailure("p1", 1, "NotPermitted")>>
          /\ StoredIds(mgr) = {1, 2}
          /\ StoredIds(m2) = {}
          /\ m2.awaiting_peer_rule = EmptyMap

\* What the manager m2 after a call holds of an approved inbound request of
\* `peer` that could not be attached, m1 being the manager before the call:
\* the one action enqueued is its InboundFailure{ConnectionClosed}, and it is
\* in no store and in no waiting set.
FailedUnattached(m1, m2, peer, request_id) ==
    /\ SubSeq(m2.actions, 1, Len(m1.actions)) = m1.actions
    /\ Enqueued(m1, m2) = <<InboundFailure(peer, request_id, "ConnectionClosed")>>
    /\ request_id \notin StoredIds(m2)
    /\ request_id \notin WaitingIds(m2)

WithoutInFlight(pending, connection, request_id, dir) ==
    [c \in DOMAIN pending |->
        IF c # connection
        THEN pending[c]
        ELSE IF dir = "Inbound"
             THEN [inbound_requests |-> pending[c].inbound_requests \ {request_id},
                   outbound_requests |-> pending[c].outbound_requests]
             ELSE [inbound_requests |-> pending[c].inbound_requests,
                   outbound_requests |-> pending[c].outbound_requests \ {request_id}]]

\* The manager m with the report `result` for request_id on `connection` taken
\* in: the id is out of the connection's in-flight set of direction dir, the
\* failure of an Err is appended to the queue, and nothing else differs.
ReportTakenIn(m, peer, connection, request_id, result, dir) ==
    [m EXCEPT !.connections.pending = WithoutInFlight(@, connection, request_id, dir),
              !.actions = IF result = "Ok"
                          THEN @
                          ELSE Append(@, IF dir = "Inbound"
                                         THEN InboundFailure(peer, request_id, result)
                                         ELSE OutboundFailure(peer, request_id, result))]

\* C22: on_res_for_inbound/on_res_for_outbound(peer, conn, id, res) removes id
\* from conn's in-flight set of that direction, enqueues exactly one failure
\* with the given reason when res is Err and nothing when res is Ok, and leaves
\* the request stores, all waiting sets and the in-flight sets of other
\* connections unchanged.
C22_ReportOnlyCompletes ==
    \A peer \in Peers, connection \in ConnectionIds :
        \A request_id \in 1..MaxRequests, result \in ReportedResults :
            /\ on_res_for_inbound(mgr, peer, connection, request_id, result)
                   = ReportTakenIn(mgr, peer, connection, request_id, result, "Inbound")
            /\ on_res_for_outbound(mgr, peer, connection, request_id, result)
                   = ReportTakenIn(mgr, peer, connection, request_id, result, "Outbound")

\* An outbound request was handed out on a connection and its handler has
\* reported a time-out: the request is no longer in flight and its failure
\* followed its Ready, while an inbound request handed out on the same
\* connection is still in flight.
C22_Witness ==
    \E connection \in ConnectionIds :
        /\ Len(requests) = 2
        /\ requests[1].direction = "Outbound"
        /\ requests[1].reported
        /\ requests[1].completed
        /\ requests[1].log = <<[type |-> "OutboundReady", reason |-> "-", report |-> FALSE],
                               [type |-> "OutboundFailure", reason |-> "Timeout",
                                report |-> TRUE]>>
        /\ ~InFlightOn(mgr, connection, 1, "Outbound")
        /\ InFlightOn(mgr, connection, 2, "Inbound")
        /\ ~requests[2].reported

\* The elements of a sequence.
Elements(seq) == {seq[i] : i \in 1..Len(seq)}

\* The ids of the actions of `pushed` that carry one of `ids`, in queue order.
IdsIn(pushed, ids) ==
    LET mine == SelectSeq(pushed, LAMBDA a : a.request_id \in Elements(ids))
    IN [i \in 1..Len(mine) |-> mine[i].request_id]

\* The ids of the entries of a require_ask list that have direction d, in
\* list order.
AskedIn(require_ask, d) ==
    LET mine == SelectSeq(require_ask, LAMBDA e : e[3] = d)
    IN [i \in 1..Len(mine) |-> mine[i][1]]

\* C23: the Ready or Failure action of a request is enqueued only after its
\* admission by on_new_request: every such action in the queue carries the id
\* of an admitted request; and within one on_peer_rule call the actions and the
\* returned approval entries for the affected ids of one direction appear in
\* the order in which those ids were appended to the waiting list.
C23_OrderedAfterAdmission ==
    /\ \A k \in 1..Len(mgr.actions) :
           IsReady(mgr.actions[k]) \/ IsFailure(mgr.actions[k])
               => mgr.actions[k].request_id \in RequestIds
    /\ \A peer \in DOMAIN mgr.awaiting_peer_rule, direction \in RuleDirections :
           \A rules \in RulesFor(peer, direction), d \in RequestDirections :
               LET ruled == on_peer_rule(mgr, peer, rules, direction)
                   ids == AwaitingRule(mgr, peer, d)
                   acted == IdsIn(Enqueued(mgr, ruled.m), ids)
                   asked == AskedIn(ruled.require_ask, d)
               IN /\ acted = SelectSeq(ids, LAMBDA id : id \in Elements(acted))
                  /\ asked = SelectSeq(ids, LAMBDA id : id \in Elements(asked))

\* Two outbound requests of a connected peer wait for its rule, the second
\* behind the first; a permitting rule hands them out in that order, and a
\* rule that asks returns them in that order.
C23_Witness ==
    /\ AwaitingRule(mgr, "p1", "Outbound") = <<1, 2>>
    /\ is_connected(mgr.connections, "p1")
    /\ mgr.actions = <<>>
    /\ LET none == [kind |-> "None", permission |-> {}]
           permitted == on_peer_rule(mgr, "p1",
                            [inbound |-> none,
                             outbound |-> [kind |-> "Permission", permission |-> {1}]],
                            "Outbound")
           asked == on_peer_rule(mgr, "p1",
                        [inbound |-> none,
                         outbound |-> [kind |-> "Ask", permission |-> {}]],
                        "Outbound")
       IN /\ IdsIn(permitted.m.actions, <<1, 2>>) = <<1, 2>>
          /\ \A k \in 1..2 : permitted.m.actions[k].type = "OutboundReady"
          /\ AskedIn(asked.require_ask, "Outbound") = <<1, 2>>

\* The answer of pending_rule_requests that reports exactly the directions dirs.
Reporting(dirs) ==
    IF dirs = {"Inbound", "Outbound"} THEN "Both"
    ELSE IF dirs = {"Inbound"} THEN "Inbound"
    ELSE IF dirs = {"Outbound"} THEN "Outbound"
    ELSE "None"

\* The directions in which a request of `peer` waits for a rule.
BlockedDirections(m, peer) == {d \in RequestDirections : AwaitingRule(m, peer, d) # <<>>}

\* C24, as claimed: pending_rule_requests(peer) reports exactly the directions
\* in which at least one request of the peer is blocked waiting for a rule, and
\* None when no request of the peer waits for a rule, after any sequence of
\* add_pending_rule_requests, on_new_request, on_peer_rule and on_no_peer_rule.
C24_ReportsBlockedAsClaimed ==
    \A peer \in Peers :
        pending_rule_requests(mgr, peer) = Reporting(BlockedDirections(mgr, peer))

\* C24, amended: pending_rule_requests(peer) reports exactly the directions
\* for which a rule of the peer has been asked for and not yet been given:
\* those marked by add_pending_rule_requests as well as those a request was
\* admitted to with MissingRule.  Every direction in which a request of the
\* peer is blocked is among them, but a direction is also reported while no
\* request waits in it.
C24_ReportsOpenRuleQueries ==
    \A peer \in Peers :
        /\ pending_rule_requests(mgr, peer) =
               Reporting({d \in RequestDirections : <<peer, d>> \in rule_queries})
        /\ \A d \in BlockedDirections(mgr, peer) : <<peer, d>> \in rule_queries

\* A request waits for the inbound rule of a peer whose outbound rule has been
\* asked for as well, with no outbound request waiting: both directions are
\* reported.
C24_Witness ==
    /\ AwaitingRule(mgr, "p1", "Inbound") = <<1>>
    /\ AwaitingRule(mgr, "p1", "Outbound") = <<>>
    /\ pending_rule_requests(mgr, "p1") = "Both"
    /\ pending_rule_requests(mgr, "p2") = "None"

\* The listing e of a waiting request in m1 is in m2 as it was: the id is
\* listed in the same waiting set, for the same peer and direction, and its
\* stored request is the same and in the same store.
KeptWaiting(m1, m2, e) ==
    /\ CASE e.set = "awaiting_connection" ->
                e.id \in Elements(AwaitingConnection(m2, e.at[1]))
         [] e.set = "awaiting_peer_rule" ->
                e.id \in Elements(AwaitingRule(m2, e.at[1], e.dir))
         [] e.set = "awaiting_approval" ->
                <<e.id, e.dir>> \in Elements(m2.awaiting_approval)
    /\ e.id \in DOMAIN m2.inbound_request_store <=> e.id \in DOMAIN m1.inbound_request_store
    /\ e.id \in DOMAIN m2.outbound_request_store <=> e.id \in DOMAIN m1.outbound_request_store
    /\ e.id \in StoredIds(m2)
    /\ Stored(m2, e.id) = Stored(m1, e.id)

\* The requests listed in the waiting set `set` of m1, other than those for which
\* Ended holds, are kept by the call that left m2.
KeptUnless(m2, set, Ended(_)) ==
    \A e \in WaitingEntries(mgr) : (e.set = set /\ Ended(e)) \/ KeptWaiting(mgr, m2, e)

\* C25: a request in awaiting_peer_rule, awaiting_approval or
\* awaiting_connection is removed from its waiting set and store only by
\* on_peer_rule/on_no_peer_rule for its peer and direction, on_request_approval
\* for its id, or on_peer_connected/on_dial_failure for its peer respectively;
\* on_connection_established, on_connection_closed, on_peer_disconnected,
\* on_res_for_*, take_next_action and operations on other peers or ids leave
\* it unchanged.
C25_WaitingSurvives ==
    WaitingEntries(mgr) # {} =>
        /\ \A peer \in Peers :
               /\ KeptUnless(on_connection_established(mgr, peer, next_connection_id),
                             "-", LAMBDA e : FALSE)
               /\ \A m2 \in on_peer_disconnected(mgr, peer) :
                      KeptUnless(m2, "-", LAMBDA e : FALSE)
               /\ \A connection \in ConnectionIds :
                      /\ \A m2 \in on_connection_closed(mgr, peer, connection) :
                             KeptUnless(m2, "-", LAMBDA e : FALSE)
                      /\ \A request_id \in 1..MaxRequests, result \in ReportedResults :
                             /\ KeptUnless(on_res_for_inbound(mgr, peer, connection,
                                                              request_id, result),
                                           "-", LAMBDA e : FALSE)
                             /\ KeptUnless(on_res_for_outbound(mgr, peer, connection,
                                                               request_id, result),
                                           "-", LAMBDA e : FALSE)
               /\ KeptUnless(on_peer_connected(mgr, peer), "awaiting_connection",
                             LAMBDA e : e.at[1] = peer)
               /\ KeptUnless(on_dial_failure(mgr, peer), "awaiting_connection",
                             LAMBDA e : e.at[1] = peer)
               /\ \A direction \in RuleDirections :
                      /\ KeptUnless(on_no_peer_rule(mgr, peer, direction), "awaiting_peer_rule",
                                    LAMBDA e : e.at[1] = peer /\ Covers(direction, e.dir))
                      /\ \A rules \in RulesFor(peer, direction) :
                             KeptUnless(on_peer_rule(mgr, peer, rules, direction).m,
                                        "awaiting_peer_rule",
                                        LAMBDA e : e.at[1] = peer /\ Covers(direction, e.dir))
               /\ \A request \in PermissionValues, approval_status \in ApprovalStatus,
                     dir \in RequestDirections :
                      KeptUnless(on_new_request(mgr, peer, next_request_id, request,
                                                approval_status, dir),
                                 "-", LAMBDA e : FALSE)
        /\ KeptUnless(take_next_action(mgr).m, "-", LAMBDA e : FALSE)
        /\ \A request_id \in 1..MaxRequests, is_allowed \in BOOLEAN :
               KeptUnless(on_request_approval(mgr, request_id, is_allowed).m,
                          "awaiting_approval", LAMBDA e : e.id = request_id)

\* A request still waits for the rule of its peer, stored, after two
\* connections were established and closed again, another request was handed
\* out and reported by its handler, and the queue was emptied.
C25_Witness ==
    /\ AwaitingRule(mgr, "p1", "Inbound") = <<1>>
    /\ 1 \in DOMAIN mgr.inbound_request_store
    /\ Len(requests) = 2
    /\ requests[2].reported
    /\ requests[2].completed
    /\ next_connection_id = 3
    /\ \A peer \in Peers : ~is_connected(mgr.connections, peer)
    /\ mgr.actions = <<>>

\* The positions of the completed substream operations of kind `op`.
Completed(io, op) == {i \in 1..Len(io) : io[i][1] = op}

\* C26: the inbound upgrade reads exactly one request and forwards it with a
\* fresh response sink; it returns true only after the sink delivered a
\* response and that response was written to the substream; if the sink is
\* dropped before a response is produced (also when the receiving end of the
\* request channel is already gone) it writes no response, closes the
\* substream and returns false, unless the close itself fails with an io
\* error, which aborts the upgrade; a response is never written before the
\* request was read.
C26_ResponseAfterRequest ==
    LET h == inbound_upgrade IN
    /\ Cardinality(Completed(h.io, "read")) <= 1
    /\ Cardinality(Completed(h.io, "write")) <= 1
    /\ \A i \in Completed(h.io, "write") : \E j \in Completed(h.io, "read") : j < i
    /\ h.sink # "none"
           => /\ Completed(h.io, "read") = {1}
              /\ from_slice(h.io[1][2]) = [ok |-> TRUE, value |-> h.request]
    /\ h.pc \notin {"idle", "read"} /\ h.output # "Err" => h.sink # "none"
    /\ h.output = "true"
           => /\ h.sink = "signaled"
              /\ h.pc = "done"
              /\ to_vec(h.sink_value).ok
              /\ h.io = <<h.io[1], <<"write", to_vec(h.sink_value).bytes>>, <<"close">>>>
    /\ h.sink = "dropped" => Completed(h.io, "write") = {}
    /\ h.sink = "dropped" /\ h.pc = "done"
           => \/ h.output = "false" /\ h.io = <<h.io[1], <<"close">>>>
              \/ h.output = "Err" /\ h.error = "Io" /\ Completed(h.io, "close") = {}
    /\ h.output = "false" => h.sink = "dropped"

\* The manager's end of the request channel was gone: the upgrade has read
\* the request, found its sink dropped, closed the substream without writing
\* and returned false.
C26_Witness ==
    /\ inbound_upgrade.pc = "done"
    /\ inbound_upgrade.receiver = "gone"
    /\ inbound_upgrade.sink = "dropped"
    /\ inbound_upgrade.request = 2
    /\ inbound_upgrade.output = "false"
    /\ inbound_upgrade.io = <<<<"read", <<50>>>>, <<"close">>>>

\* C27: the outbound upgrade writes exactly one request, then reads exactly
\* one response, then sends it on the caller's sink; it returns true iff a
\* response was read and the sink accepted it, false if a response was read
\* and the caller had already dropped the sink, and an error, delivering
\* nothing on the sink, if writing, reading or decoding fails.
C27_RequestThenResponse ==
    LET h == outbound_upgrade
        read == Completed(h.io, "read")
    IN /\ Cardinality(Completed(h.io, "write")) <= 1
       /\ h.pc \in {"write_close", "read"}
              => Completed(h.io, "write") = {1} /\ h.io[1][2] = to_vec(h.request).bytes
       /\ read # {}
              => /\ read = {3}
                 /\ h.io[1] = <<"write", to_vec(h.request).bytes>>
                 /\ h.io[2] = <<"close">>
                 /\ from_slice(h.io[3][2]) = [ok |-> TRUE, value |-> h.response]
       /\ h.output = "true"
              <=> /\ h.pc = "done"
                  /\ read # {}
                  /\ h.caller = "received"
                  /\ h.delivered = h.response
       /\ h.output = "false" <=> h.pc = "done" /\ read # {} /\ h.caller = "dropped"
       /\ h.output = "Err" <=> h.pc = "done" /\ read = {}
       /\ h.output = "Err" => h.caller # "received" /\ h.delivered = 0
       /\ h.caller = "received" => h.output = "true"

\* The upgrade has written the request, read the response and handed it to
\* the waiting caller.
C27_Witness ==
    /\ outbound_upgrade.pc = "done"
    /\ outbound_upgrade.output = "true"
    /\ outbound_upgrade.request = 1
    /\ outbound_upgrade.caller = "received"
    /\ outbound_upgrade.delivered = 2
    /\ outbound_upgrade.io = <<<<"write", <<49>>>>, <<"close">>, <<"read", <<50>>>>>>

\* The live connections of a peer.
LiveConnections(m, peer) == Elements(get_connections(m.connections, peer))

\* The Ready action names, in the manager m, a live connection of its peer on
\* which its request is in flight; an InboundReady, which names none, has its
\* request in flight on some live connection of its peer.
ReadyOnLiveConnection(m, action) ==
    CASE action.type = "OutboundReady" ->
             /\ action.connection \in LiveConnections(m, action.peer)
             /\ InFlightOn(m, action.connection, action.request_id, "Outbound")
      [] action.type = "InboundReady" ->
             \E connection \in LiveConnections(m, action.peer) :
                 InFlightOn(m, connection, action.request_id, "Inbound")
      [] OTHER -> TRUE

\* C28: every OutboundReady action names a connection that, when the action is
\* enqueued, is a registered live connection of the action's peer and has the
\* request id in its outbound in-flight set; every InboundReady is enqueued
\* only while its id is in the inbound in-flight set of a live connection of
\* that peer.
C28_ReadyNamesLiveConnection ==
    [][\A k \in 1..Len(Enqueued(mgr, mgr')) :
           ReadyOnLiveConnection(mgr', Enqueued(mgr, mgr')[k])]_vars

\* An OutboundReady in the queue names one of the two live connections of its
\* peer, on which its request is in flight.
C28_Witness ==
    \E k \in 1..Len(mgr.actions) :
        /\ mgr.actions[k].type = "OutboundReady"
        /\ Len(get_connections(mgr.connections, mgr.actions[k].peer)) = 2
        /\ ReadyOnLiveConnection(mgr, mgr.actions[k])
        /\ requests[mgr.actions[k].request_id].log =
               <<[type |-> "OutboundReady", reason |-> "-", report |-> FALSE]>>

====
